---- MODULE Spec2Model ----
(***************************************************************************)
(* Model of the cms::string buffer engine (cmsStringUtil.cpp).             *)
(*                                                                         *)
(* A C buffer is a sequence of bytes; C index i is element i+1.  The       *)
(* variable mem holds the maxLen bytes of the caller's buffer.  A write    *)
(* behind the buffer is not stored but recorded in hiWrite, a read behind  *)
(* it yields NUL; either one sets ub, after which the machine stops,       *)
(* because nothing is known about the program from there on.               *)
(***************************************************************************)
EXTENDS Integers, Sequences, FiniteSets, TLC

VARIABLES
    mem,      \* char buffer[maxLen]
    maxLen,   \* capacity N of the buffer
    curLen,   \* tracked logical length
    hiWrite,  \* highest C index written by the last call, -1 if none
    ub,       \* TRUE once a call has accessed memory behind the buffer
    trace,    \* TRUE in the specifications that record the last call
    lastOp,   \* the last call; with its arguments when trace is TRUE
    out,      \* result of the last query (destination buffer, tokens, match)
    queue,    \* Queue<T, N>: _data, _head, _tail, _count
    hist,     \* every item enqueued so far, in order, and the number of calls
    tsq,      \* ThreadSafeQueue: the mutex and each thread's position in its call
    logger    \* AsyncLogger: the runtime level, what was logged and what was output

vars == <<mem, maxLen, curLen, hiWrite, ub, trace, lastOp, out, queue, hist, tsq, logger>>

svars == <<mem, maxLen, curLen, hiWrite, ub, trace>>
qvars == <<queue, hist, tsq, logger>>

(* the specifications of the string engine have no queue and no logger *)
NoQueue == queue = <<>> /\ hist = <<>> /\ tsq = <<>> /\ logger = <<>>

(* the specifications of the queue and the logger have no string buffer *)
NoString ==
    mem = <<>> /\ maxLen = 0 /\ curLen = 0 /\ hiWrite = -1 /\ ub = FALSE /\ trace = TRUE

----------------------------------------------------------------------------
(* Bounds of the model *)

MaxCap == 4          \* largest buffer capacity of the mutation machine

----------------------------------------------------------------------------
(* Bytes *)

NUL == 0
ChMinus == 45
ChDot == 46
ChZero == 48
ChSpace == 32
ChPercent == 37
ChQuestion == 63

(* a null pointer passed where a string is expected *)
NullPtr == <<-1>>

Min(a, b) == IF a < b THEN a ELSE b
Max(a, b) == IF a > b THEN a ELSE b

(* buffer[i] for a C index i; memory behind the modelled bytes reads as NUL *)
At(m, i) == IF i >= 0 /\ i < Len(m) THEN m[i + 1] ELSE NUL

(* buffer[i] = b; a write behind the modelled memory is not stored *)
Put(m, i, b) == IF i >= 0 /\ i < Len(m) THEN [m EXCEPT ![i + 1] = b] ELSE m

(* memcpy(buffer + i, s, n) *)
PutSeq(m, i, s, n) ==
    [k \in 1..Len(m) |-> IF k - 1 >= i /\ k - 1 < i + n THEN s[k - i] ELSE m[k]]

(* memmove(buffer + d, buffer + s, n): the source is read as it was before *)
MemMove(m, d, s, n) ==
    [k \in 1..Len(m) |-> IF k - 1 >= d /\ k - 1 < d + n THEN At(m, s + (k - 1 - d)) ELSE m[k]]

(* index of the first NUL at or after from (strlen relative to the buffer) *)
StrEnd(m, from) ==
    IF from >= Len(m) THEN from
    ELSE CHOOSE e \in from..Len(m) :
            /\ (e = Len(m) \/ m[e + 1] = NUL)
            /\ \A k \in from..(e - 1) : m[k + 1] # NUL

(* the C string that starts at index from *)
CStr(m, from) == SubSeq(m, from + 1, StrEnd(m, from))

(* the result of a mutating call: new memory, new length, highest index written *)
Res(b, l, h) == [buffer |-> b, curLen |-> l, hi |-> h]

----------------------------------------------------------------------------
(* append *)

(* append that takes the source length for the current length when it
   computes the room left *)
append_roomFromSrcLen(buffer, maxL, curL, src, srcLen) ==
    IF srcLen = 0 \/ curL >= maxL - 1 THEN Res(buffer, curL, -1)
    ELSE LET available == maxL - 1 - srcLen
             toCopy == IF srcLen < available THEN srcLen ELSE available
         IN IF toCopy > 0
            THEN Res(Put(PutSeq(buffer, curL, src, toCopy), curL + toCopy, NUL),
                     curL + toCopy, curL + toCopy)
            ELSE Res(buffer, curL, -1)

append(buffer, maxL, curL, src, srcLen) ==
    IF srcLen = 0 \/ curL >= maxL - 1 THEN Res(buffer, curL, -1)
    ELSE LET available == maxL - 1 - curL
             toCopy == IF srcLen < available THEN srcLen ELSE available
         IN IF toCopy > 0
            THEN Res(Put(PutSeq(buffer, curL, src, toCopy), curL + toCopy, NUL),
                     curL + toCopy, curL + toCopy)
            ELSE Res(buffer, curL, -1)

----------------------------------------------------------------------------
(* Integer, hex and float conversion *)

RECURSIVE DecDigits(_)
DecDigits(v) ==
    IF v < 10 THEN <<ChZero + v>>
    ELSE Append(DecDigits(v \div 10), ChZero + (v % 10))

HexChar(d, uppercase) ==
    IF d < 10 THEN ChZero + d
    ELSE IF uppercase THEN 65 + (d - 10) ELSE 97 + (d - 10)

RECURSIVE HexDigits(_, _)
HexDigits(v, uppercase) ==
    IF v < 16 THEN <<HexChar(v, uppercase)>>
    ELSE Append(HexDigits(v \div 16, uppercase), HexChar(v % 16, uppercase))

(* the digits ds written right to left so that they end before writeIdx,
   then padChar down to startIdx, after the terminator at writeIdx *)
WriteRightAligned(buffer, startIdx, writeIdx, ds, padChar) ==
    LET nd == Len(ds)
        b1 == Put(buffer, writeIdx, NUL)
    IN [k \in 1..Len(b1) |->
          IF k - 1 >= writeIdx - nd /\ k - 1 < writeIdx
          THEN ds[(k - 1) - (writeIdx - nd) + 1]
          ELSE IF k - 1 >= startIdx /\ k - 1 < writeIdx - nd THEN padChar
          ELSE b1[k]]

appendUIntInternal(buffer, maxL, curL, uval, width, padChar) ==
    LET digitsCount ==
            IF uval < 10 THEN 1
            ELSE IF uval < 100 THEN 2
            ELSE IF uval < 1000 THEN 3
            ELSE IF uval < 10000 THEN 4
            ELSE IF uval < 100000 THEN 5
            ELSE IF uval < 1000000 THEN 6
            ELSE IF uval < 10000000 THEN 7
            ELSE IF uval < 100000000 THEN 8
            ELSE IF uval < 1000000000 THEN 9
            ELSE 10
        totalLen == IF digitsCount > width THEN digitsCount ELSE width
    IN IF curL + totalLen >= maxL THEN Res(buffer, curL, -1)
       ELSE Res(WriteRightAligned(buffer, curL, curL + totalLen, DecDigits(uval), padChar),
                curL + totalLen, curL + totalLen)

appendHexInternal(buffer, maxL, curL, uval, width, padChar, uppercase) ==
    LET digitsCount == Len(HexDigits(uval, uppercase))
        totalLen == IF digitsCount > width THEN digitsCount ELSE width
    IN IF curL + totalLen >= maxL THEN Res(buffer, curL, -1)
       ELSE Res(WriteRightAligned(buffer, curL, curL + totalLen,
                                  HexDigits(uval, uppercase), padChar),
                curL + totalLen, curL + totalLen)

appendInt(buffer, maxL, curL, val, width, padChar) ==
    IF curL >= maxL - 1 THEN Res(buffer, curL, -1)
    ELSE IF val < 0
         THEN LET r == appendUIntInternal(Put(buffer, curL, ChMinus), maxL, curL + 1,
                                          0 - val, IF width > 0 THEN width - 1 ELSE 0, padChar)
              IN Res(r.buffer, r.curLen, Max(curL, r.hi))
         ELSE appendUIntInternal(buffer, maxL, curL, val, width, padChar)

Pow10(n) == CASE n = 0 -> 1 [] n = 1 -> 10 [] n = 2 -> 100 [] n = 3 -> 1000
              [] n = 4 -> 10000 [] n = 5 -> 100000 [] n = 6 -> 1000000
              [] n = 7 -> 10000000 [] n = 8 -> 100000000 [] n = 9 -> 1000000000

(* appendFloat without the rounding offset: the value is cut, not rounded *)
appendFloat_noOffset(buffer, maxL, curL, milli, decimalPlaces) ==
    IF curL >= maxL - 1 THEN Res(buffer, curL, -1)
    ELSE LET dp == IF decimalPlaces < 0 THEN 0
                   ELSE IF decimalPlaces > 9 THEN 9 ELSE decimalPlaces
             neg == milli < 0
             b0 == IF neg THEN Put(buffer, curL, ChMinus) ELSE buffer
             l0 == IF neg THEN curL + 1 ELSE curL
             h0 == IF neg THEN curL ELSE -1
             mag == IF neg THEN 0 - milli ELSE milli
             intPart == mag \div 1000
             fracInt == IF dp <= 3 THEN (mag % 1000) \div Pow10(3 - dp)
                        ELSE (mag % 1000) * Pow10(dp - 3)
             r1 == appendInt(b0, maxL, l0, intPart, 0, ChSpace)
         IN IF dp > 0 /\ r1.curLen < maxL - 1
            THEN LET r2 == appendUIntInternal(Put(r1.buffer, r1.curLen, ChDot), maxL,
                                              r1.curLen + 1, fracInt, dp, ChZero)
                 IN Res(r2.buffer, r2.curLen, Max(Max(h0, r1.hi), Max(r1.curLen, r2.hi)))
            ELSE Res(r1.buffer, r1.curLen, Max(h0, r1.hi))

(* A double is modelled as an exact decimal: milli is the value in units of
   1/1000.  roundingOffsets[p] = 0.5 / 10^p is added exactly; for p <= 3 the
   sum is computed in units of 1/10000, for p > 3 the offset is smaller than
   the grid and only contributes 0.5 to fracPart * 10^p, which the cast to
   unsigned long drops (the 1e-9 epsilon never reaches the next integer on
   this grid). *)
appendFloat(buffer, maxL, curL, milli, decimalPlaces) ==
    IF curL >= maxL - 1 THEN Res(buffer, curL, -1)
    ELSE LET dp == IF decimalPlaces < 0 THEN 0
                   ELSE IF decimalPlaces > 9 THEN 9 ELSE decimalPlaces
             neg == milli < 0
             b0 == IF neg THEN Put(buffer, curL, ChMinus) ELSE buffer
             l0 == IF neg THEN curL + 1 ELSE curL
             h0 == IF neg THEN curL ELSE -1
             mag == IF neg THEN 0 - milli ELSE milli
             dval4 == mag * 10 + 5 * Pow10(3 - Min(dp, 3))
             intPart == IF dp <= 3 THEN dval4 \div 10000 ELSE mag \div 1000
             fracRaw == IF dp <= 3 THEN (dval4 % 10000) \div Pow10(4 - dp)
                        ELSE (mag % 1000) * Pow10(dp - 3)
             fracInt == IF fracRaw >= Pow10(dp) THEN Pow10(dp) - 1 ELSE fracRaw
             r1 == appendInt(b0, maxL, l0, intPart, 0, ChSpace)
         IN IF dp > 0 /\ r1.curLen < maxL - 1
            THEN LET r2 == appendUIntInternal(Put(r1.buffer, r1.curLen, ChDot), maxL,
                                              r1.curLen + 1, fracInt, dp, ChZero)
                 IN Res(r2.buffer, r2.curLen, Max(Max(h0, r1.hi), Max(r1.curLen, r2.hi)))
            ELSE Res(r1.buffer, r1.curLen, Max(h0, r1.hi))

----------------------------------------------------------------------------
(* Character classes (cmsStringUtil.h) *)

toLower(c) == IF c >= 65 /\ c <= 90 THEN c + 32 ELSE c

isSpace(c) == c \in {9, 10, 11, 12, 13, 32}

isDigit(c) == c >= 48 /\ c <= 57

(* a test of the top bit alone *)
IsCont_highBit(c) == c >= 128

(* a continuation byte: the top two bits are 10 *)
IsCont(c) == c >= 128 /\ c <= 191

----------------------------------------------------------------------------
(* UTF-8 logical index to byte offset *)

RECURSIVE Utf8Scan(_, _, _, _)
Utf8Scan(str, p, count, charIdx) ==
    IF At(str, p) # NUL /\ count < charIdx
    THEN Utf8Scan(str, p + 1, IF ~IsCont(At(str, p)) THEN count + 1 ELSE count, charIdx)
    ELSE p

(* no advance to the next character start *)
SkipCont_none(str, p) == p

RECURSIVE SkipCont(_, _)
SkipCont(str, p) ==
    IF At(str, p) # NUL /\ IsCont(At(str, p)) THEN SkipCont(str, p + 1) ELSE p

(* the string starts at C index base of str; the result is a C index of str *)
findUtf8CharStart(str, base, charIdx) ==
    SkipCont(str, Utf8Scan(str, base, 0, charIdx))

utf8_strlen(s) == Cardinality({k \in 1..Len(s) : ~IsCont(s[k])})

----------------------------------------------------------------------------
(* insert, remove, trim *)

insert(buffer, maxL, curL, charIdx, src) ==
    IF src = NullPtr \/ src = <<>> THEN Res(buffer, curL, -1)
    ELSE LET byteOffset == findUtf8CharStart(buffer, 0, charIdx)
             srcLen == IF curL + Len(src) >= maxL
                       THEN (IF maxL > curL + 1 THEN maxL - curL - 1 ELSE 0)
                       ELSE Len(src)
         IN IF srcLen = 0 THEN Res(buffer, curL, -1)
            ELSE LET shifted ==
                         IF byteOffset < curL
                         THEN MemMove(buffer, byteOffset + srcLen, byteOffset,
                                      curL - byteOffset + 1)
                         ELSE Put(buffer, curL + srcLen, NUL)
                 IN Res(PutSeq(shifted, byteOffset, src, srcLen), curL + srcLen,
                        Max(curL + srcLen, byteOffset + srcLen - 1))

(* size_t arithmetic: a difference below zero wraps around *)
SizeMod == 65536

SizeT(x) == IF x < 0 THEN x + SizeMod ELSE x

(* tailLen is a size_t: when endOffset lies behind curLen it wraps around;
   the count tailLen + 1 is then 0 (nothing moves) or so large that memmove
   runs over all of memory, and hi names a byte behind the buffer *)
(* remove that takes charCount for a number of bytes *)
remove_byteCount(buffer, curL, charIdx, charCount) ==
    LET startOffset == findUtf8CharStart(buffer, 0, charIdx)
    IN IF At(buffer, startOffset) = NUL THEN Res(buffer, curL, -1)
       ELSE LET endOffset == Min(startOffset + charCount, StrEnd(buffer, 0))
                tailLen == curL - endOffset
                newLen == SizeT(curL - (endOffset - startOffset))
            IN IF tailLen < -1
               THEN Res(MemMove(buffer, startOffset, endOffset, Len(buffer)), newLen,
                        Len(buffer))
               ELSE IF tailLen = -1 THEN Res(buffer, newLen, -1)
               ELSE Res(MemMove(buffer, startOffset, endOffset, tailLen + 1), newLen,
                        startOffset + tailLen)

remove(buffer, curL, charIdx, charCount) ==
    LET startOffset == findUtf8CharStart(buffer, 0, charIdx)
    IN IF At(buffer, startOffset) = NUL THEN Res(buffer, curL, -1)
       ELSE LET endOffset == findUtf8CharStart(buffer, 0, charIdx + charCount)
                tailLen == curL - endOffset
                newLen == SizeT(curL - (endOffset - startOffset))
            IN IF tailLen < -1
               THEN Res(MemMove(buffer, startOffset, endOffset, Len(buffer)), newLen,
                        Len(buffer))
               ELSE IF tailLen = -1 THEN Res(buffer, newLen, -1)
               ELSE Res(MemMove(buffer, startOffset, endOffset, tailLen + 1), newLen,
                        startOffset + tailLen)

RECURSIVE SkipSpace(_, _)
SkipSpace(str, p) ==
    IF At(str, p) # NUL /\ isSpace(At(str, p)) THEN SkipSpace(str, p + 1) ELSE p

(* no scan of the tail *)
TrimEnd_none(str, start, end) == end

RECURSIVE TrimEnd(_, _, _)
TrimEnd(str, start, end) ==
    IF end > start /\ isSpace(At(str, end)) THEN TrimEnd(str, start, end - 1) ELSE end

trim(str) ==
    IF At(str, 0) = NUL THEN Res(str, 0, -1)
    ELSE LET len == StrEnd(str, 0)
             start == SkipSpace(str, 0)
         IN IF At(str, start) = NUL THEN Res(Put(str, 0, NUL), 0, 0)
            ELSE LET end == TrimEnd(str, start, len - 1)
                     cut == [k \in 1..Len(str) |->
                               IF k - 1 > end /\ k - 1 <= len - 1 THEN NUL ELSE str[k]]
                     newLen == (end - start) + 1
                 IN IF start # 0
                    THEN Res(MemMove(cut, 0, start, newLen + 1), newLen,
                             Max(newLen, IF end < len - 1 THEN len - 1 ELSE -1))
                    ELSE Res(cut, newLen, IF end < len - 1 THEN len - 1 ELSE -1)

----------------------------------------------------------------------------
(* Search: strstr and the case-insensitive strcasestr (KMP and naive scan).
   A haystack is the byte sequence of a C string, a result is the C index of
   the match relative to the haystack start, NoMatch for a null pointer. *)

NoMatch == -1

KmpLimit == 64

(* strstr(haystack, needle), needle non-empty *)
strstr(haystack, needle) ==
    LET m == Len(needle)
        hits == {i \in 0..(Len(haystack) - m) :
                    \A k \in 1..m : haystack[i + k] = needle[k]}
    IN IF hits = {} THEN NoMatch ELSE CHOOSE i \in hits : \A o \in hits : i <= o

RECURSIVE LPSLoop(_, _, _, _, _)
LPSLoop(pat, m, len, i, lps) ==
    IF i < m
    THEN IF toLower(pat[i + 1]) = toLower(pat[len + 1])
         THEN LPSLoop(pat, m, len + 1, i + 1, [lps EXCEPT ![i + 1] = len + 1])
         ELSE IF len # 0
              THEN LPSLoop(pat, m, lps[len], i, lps)
              ELSE LPSLoop(pat, m, len, i + 1, [lps EXCEPT ![i + 1] = 0])
    ELSE lps

(* computeLPS whose loop never runs: the table stays zero *)
computeLPS_zeroTable(pat, m) == LPSLoop(pat, m, 0, m, [k \in 1..m |-> 0])

(* lps[k+1] models lps[k] *)
computeLPS(pat, m) == LPSLoop(pat, m, 0, 1, [k \in 1..m |-> 0])

RECURSIVE KmpLoop(_, _, _, _, _, _)
KmpLoop(haystack, needle, m, lps, i, j) ==
    IF At(haystack, i) = NUL THEN NoMatch
    ELSE LET hit == toLower(At(haystack, i)) = toLower(needle[j + 1])
             i1 == IF hit THEN i + 1 ELSE i
             j1 == IF hit THEN j + 1 ELSE j
         IN IF j1 = m THEN i1 - m
            ELSE IF At(haystack, i1) # NUL
                    /\ toLower(At(haystack, i1)) # toLower(needle[j1 + 1])
                 THEN IF j1 # 0
                      THEN KmpLoop(haystack, needle, m, lps, i1, lps[j1])
                      ELSE KmpLoop(haystack, needle, m, lps, i1 + 1, j1)
                 ELSE KmpLoop(haystack, needle, m, lps, i1, j1)

KmpSearch(haystack, needle) ==
    KmpLoop(haystack, needle, Len(needle), computeLPS(needle, Len(needle)), 0, 0)

RECURSIVE NaiveInner(_, _, _, _)
NaiveInner(haystack, needle, h, n) ==
    IF At(haystack, h) # NUL /\ At(needle, n) # NUL
       /\ toLower(At(haystack, h)) = toLower(At(needle, n))
    THEN NaiveInner(haystack, needle, h + 1, n + 1)
    ELSE n

RECURSIVE NaiveLoop(_, _, _)
NaiveLoop(haystack, needle, pos) ==
    IF At(haystack, pos) = NUL THEN NoMatch
    ELSE IF toLower(At(haystack, pos)) = toLower(needle[1])
            /\ At(needle, NaiveInner(haystack, needle, pos + 1, 1)) = NUL
         THEN pos
         ELSE NaiveLoop(haystack, needle, pos + 1)

NaiveSearch(haystack, needle) == NaiveLoop(haystack, needle, 0)

strcasestr(haystack, needle) ==
    IF needle = <<>> THEN 0
    ELSE IF Len(needle) <= KmpLimit THEN KmpSearch(haystack, needle)
    ELSE NaiveSearch(haystack, needle)

----------------------------------------------------------------------------
(* Queries: startsWith, endsWith, contains, find (indexOf), lastIndexOf.
   str is the buffer (or NullPtr); the pattern is a byte sequence or NullPtr. *)

Search(haystack, needle, ignoreCase) ==
    IF ignoreCase THEN strcasestr(haystack, needle) ELSE strstr(haystack, needle)

startsWith(str, prefix, ignoreCase) ==
    IF str = NullPtr \/ prefix = NullPtr THEN FALSE
    ELSE IF ~ignoreCase
         THEN \A i \in 0..(Len(prefix) - 1) : At(str, i) = prefix[i + 1]
         ELSE \A i \in 0..(Len(prefix) - 1) :
                 /\ At(str, i) # NUL
                 /\ toLower(At(str, i)) = toLower(prefix[i + 1])

endsWith(str, suffix, ignoreCase) ==
    IF str = NullPtr \/ suffix = NullPtr THEN FALSE
    ELSE LET strLen == StrEnd(str, 0)
             suffixLen == Len(suffix)
             target == strLen - suffixLen
         IN IF suffixLen > strLen THEN FALSE
            ELSE IF ~ignoreCase THEN CStr(str, target) = suffix
            ELSE \A k \in 0..(suffixLen - 1) :
                    toLower(At(str, target + k)) = toLower(suffix[k + 1])

(* contains that treats the empty target as absent *)
contains_emptyIsAbsent(str, target, ignoreCase) ==
    IF str = NullPtr \/ target = NullPtr THEN FALSE
    ELSE IF Len(target) > StrEnd(str, 0) \/ Len(target) = 0 THEN FALSE
    ELSE Search(CStr(str, 0), target, ignoreCase) # NoMatch

contains(str, target, ignoreCase) ==
    IF str = NullPtr \/ target = NullPtr THEN FALSE
    ELSE IF Len(target) > StrEnd(str, 0) THEN FALSE
    ELSE IF Len(target) = 0 THEN TRUE
    ELSE Search(CStr(str, 0), target, ignoreCase) # NoMatch

(* non-continuation bytes at the C indices from..to-1 *)
CountChars(str, from, to) ==
    Cardinality({p \in from..(to - 1) : ~IsCont(At(str, p))})

(* find that reports the byte distance to the match *)
find_byteOffset(str, target, startChar, ignoreCase) ==
    IF str = NullPtr \/ target = NullPtr THEN -1
    ELSE IF Len(target) = 0 \/ Len(target) > StrEnd(str, 0) THEN -1
    ELSE LET startPtr == findUtf8CharStart(str, 0, startChar)
         IN IF At(str, startPtr) = NUL THEN -1
            ELSE LET found == Search(CStr(str, startPtr), target, ignoreCase)
                 IN IF found = NoMatch THEN -1
                    ELSE startChar + found

find(str, target, startChar, ignoreCase) ==
    IF str = NullPtr \/ target = NullPtr THEN -1
    ELSE IF Len(target) = 0 \/ Len(target) > StrEnd(str, 0) THEN -1
    ELSE LET startPtr == findUtf8CharStart(str, 0, startChar)
         IN IF At(str, startPtr) = NUL THEN -1
            ELSE LET found == Search(CStr(str, startPtr), target, ignoreCase)
                 IN IF found = NoMatch THEN -1
                    ELSE startChar + CountChars(str, startPtr, startPtr + found)

RECURSIVE LastFound(_, _, _, _, _)
LastFound(str, target, ignoreCase, current, lastFound) ==
    LET found == Search(CStr(str, current), target, ignoreCase)
    IN IF found = NoMatch THEN lastFound
       ELSE LastFound(str, target, ignoreCase, current + found + 1, current + found)

(* lastIndexOf that stops at the first hit *)
lastIndexOf_firstHit(str, target, ignoreCase) ==
    IF str = NullPtr \/ target = NullPtr THEN -1
    ELSE IF Len(target) = 0 \/ Len(target) > StrEnd(str, 0) THEN -1
    ELSE LET found == Search(CStr(str, 0), target, ignoreCase)
         IN IF found = NoMatch THEN -1
            ELSE CountChars(str, 0, found)

lastIndexOf(str, target, ignoreCase) ==
    IF str = NullPtr \/ target = NullPtr THEN -1
    ELSE IF Len(target) = 0 \/ Len(target) > StrEnd(str, 0) THEN -1
    ELSE LET lastFound == LastFound(str, target, ignoreCase, 0, NoMatch)
         IN IF lastFound = NoMatch THEN -1
            ELSE CountChars(str, 0, lastFound)

----------------------------------------------------------------------------
(* Hexadecimal text: isHex and hexToInt.  str is a byte sequence (its length
   is strlen) or NullPtr. *)

isHexDigit(c) == isDigit(c) \/ (c >= 97 /\ c <= 102) \/ (c >= 65 /\ c <= 70)

RECURSIVE SkipSpaceTo(_, _, _)
SkipSpaceTo(str, i, len) ==
    IF i < len /\ isSpace(str[i + 1]) THEN SkipSpaceTo(str, i + 1, len) ELSE i

(* the index behind the 0x or 0X prefix at i, or i when there is none *)
SkipHexPrefix(str, i, len) ==
    IF i + 1 < len /\ str[i + 1] = ChZero /\ toLower(str[i + 2]) = 120
    THEN i + 2 ELSE i

RECURSIVE HexRun(_, _, _)
HexRun(str, i, len) ==
    IF i < len /\ isHexDigit(str[i + 1]) THEN HexRun(str, i + 1, len) ELSE i

(* val <<= 4 on a 32-bit unsigned, then val += d, kept as the int the final
   static_cast gives: the bit pattern read as two's complement *)
ShiftAdd(val, d) ==
    LET lo == val % 268435456
    IN IF lo < 134217728 THEN lo * 16 + d ELSE (lo - 268435456) * 16 + d

RECURSIVE HexAccum(_, _, _, _)
HexAccum(str, i, len, val) ==
    IF i < len /\ isHexDigit(str[i + 1])
    THEN LET c == str[i + 1]
             d == IF isDigit(c) THEN c - ChZero ELSE toLower(c) - 97 + 10
         IN HexAccum(str, i + 1, len, ShiftAdd(val, d))
    ELSE val

(* hexToInt that does not skip the prefix *)
hexToInt_noPrefix(str) ==
    IF str = NullPtr \/ str = <<>> THEN 0
    ELSE LET len == Len(str)
             i == SkipSpaceTo(str, 0, len)
         IN IF i = len THEN 0
            ELSE HexAccum(str, i, len, 0)

hexToInt(str) ==
    IF str = NullPtr \/ str = <<>> THEN 0
    ELSE LET len == Len(str)
             i == SkipSpaceTo(str, 0, len)
         IN IF i = len THEN 0
            ELSE HexAccum(str, SkipHexPrefix(str, i, len), len, 0)

isHex(str) ==
    IF str = NullPtr \/ str = <<>> THEN FALSE
    ELSE LET len == Len(str)
             i == SkipSpaceTo(str, 0, len)
         IN IF i = len THEN FALSE
            ELSE LET b == SkipHexPrefix(str, i, len)
                     e == HexRun(str, b, len)
                     digitCount == e - b
                 IN SkipSpaceTo(str, e, len) = len /\ digitCount > 0

----------------------------------------------------------------------------
(* UTF-8 validation and sanitizing *)

(* length of the well-formed sequence that starts at C index p, 0 if the
   byte at p does not start one (the grammar both functions test) *)
SeqLenAt(b, p) ==
    LET b0 == At(b, p)
        b1 == At(b, p + 1)
        b2 == At(b, p + 2)
        b3 == At(b, p + 3)
    IN IF b0 <= 127 THEN 1
       ELSE IF b0 >= 194 /\ b0 <= 223 THEN (IF IsCont(b1) THEN 2 ELSE 0)
       ELSE IF b0 = 224 THEN (IF b1 >= 160 /\ b1 <= 191 /\ IsCont(b2) THEN 3 ELSE 0)
       ELSE IF b0 >= 225 /\ b0 <= 236 THEN (IF IsCont(b1) /\ IsCont(b2) THEN 3 ELSE 0)
       ELSE IF b0 = 237 THEN (IF b1 >= 128 /\ b1 <= 159 /\ IsCont(b2) THEN 3 ELSE 0)
       ELSE IF b0 >= 238 /\ b0 <= 239 THEN (IF IsCont(b1) /\ IsCont(b2) THEN 3 ELSE 0)
       ELSE IF b0 = 240
            THEN (IF b1 >= 144 /\ b1 <= 191 /\ IsCont(b2) /\ IsCont(b3) THEN 4 ELSE 0)
       ELSE IF b0 >= 241 /\ b0 <= 243
            THEN (IF IsCont(b1) /\ IsCont(b2) /\ IsCont(b3) THEN 4 ELSE 0)
       ELSE IF b0 = 244
            THEN (IF b1 >= 128 /\ b1 <= 143 /\ IsCont(b2) /\ IsCont(b3) THEN 4 ELSE 0)
       ELSE 0

(* number of bytes the tests of validateUtf8 read at C index p: a test on
   the next byte is reached only when the tests before it passed *)
ReadsAt(b, p) ==
    LET b0 == At(b, p)
        b1 == At(b, p + 1)
        b2 == At(b, p + 2)
        second == IF b0 = 224 THEN b1 >= 160 /\ b1 <= 191
                  ELSE IF b0 = 237 THEN b1 >= 128 /\ b1 <= 159
                  ELSE IF b0 = 240 THEN b1 >= 144 /\ b1 <= 191
                  ELSE IF b0 = 244 THEN b1 >= 128 /\ b1 <= 143
                  ELSE IsCont(b1)
    IN IF b0 <= 127 \/ b0 < 194 \/ b0 > 244 THEN 1
       ELSE IF b0 <= 223 \/ ~second THEN 2
       ELSE IF b0 <= 239 \/ ~IsCont(b2) THEN 3
       ELSE 4

(* highest C index validateUtf8 reads *)
RECURSIVE ValidateReach(_, _)
ValidateReach(str, p) ==
    IF At(str, p) = NUL \/ SeqLenAt(str, p) = 0 THEN p + ReadsAt(str, p) - 1
    ELSE ValidateReach(str, p + SeqLenAt(str, p))

RECURSIVE ValidateLoop(_, _)
ValidateLoop(str, p) ==
    IF At(str, p) = NUL THEN TRUE
    ELSE IF SeqLenAt(str, p) = 0 THEN FALSE
    ELSE ValidateLoop(str, p + SeqLenAt(str, p))

validateUtf8(str) == ValidateLoop(str, 0)

Replacement == <<239, 191, 189>>

(* *dst++ = *src++, n times: every byte is read after the previous write *)
RECURSIVE CopyBytes(_, _, _, _)
CopyBytes(b, src, dst, n) ==
    IF n = 0 THEN b ELSE CopyBytes(Put(b, dst, At(b, src)), src + 1, dst + 1, n - 1)

RECURSIVE SanitizeLoop(_, _, _, _)
SanitizeLoop(b, maxL, src, dst) ==
    IF At(b, src) = NUL THEN [buffer |-> b, dst |-> dst]
    ELSE LET n == SeqLenAt(b, src)
         IN IF n = 1
            THEN IF dst >= maxL - 1 THEN [buffer |-> b, dst |-> dst]
                 ELSE SanitizeLoop(CopyBytes(b, src, dst, 1), maxL, src + 1, dst + 1)
            ELSE IF n > 1
            THEN IF dst + n >= maxL THEN [buffer |-> b, dst |-> dst]
                 ELSE SanitizeLoop(CopyBytes(b, src, dst, n), maxL, src + n, dst + n)
            ELSE IF dst + 3 < maxL
                 THEN SanitizeLoop(PutSeq(b, dst, Replacement, 3), maxL, src + 1, dst + 3)
                 ELSE IF dst < maxL - 1
                      THEN SanitizeLoop(Put(b, dst, ChQuestion), maxL, src + 1, dst + 1)
                      ELSE [buffer |-> b, dst |-> dst]

(* sanitizeUtf8 without the final terminator *)
sanitizeUtf8_noTerminator(str, maxL) ==
    IF maxL = 0 THEN Res(str, 0, -1)
    ELSE LET r == SanitizeLoop(str, maxL, 0, 0)
         IN IF r.dst < maxL THEN Res(r.buffer, r.dst, r.dst)
            ELSE Res(r.buffer, maxL - 1, Max(r.dst - 1, maxL - 1))

sanitizeUtf8(str, maxL) ==
    IF maxL = 0 THEN Res(str, 0, -1)
    ELSE LET r == SanitizeLoop(str, maxL, 0, 0)
         IN IF r.dst < maxL THEN Res(Put(r.buffer, r.dst, NUL), r.dst, r.dst)
            ELSE Res(Put(r.buffer, maxL - 1, NUL), maxL - 1, Max(r.dst - 1, maxL - 1))

----------------------------------------------------------------------------
(* replace *)

(* memmove whose size_t count n has wrapped around runs over all of memory *)
(* the move of the tail that leaves the terminator behind *)
MoveTail_noTerminator(str, d, s, n) ==
    IF n < 0 THEN MemMove(str, d, s, Len(str)) ELSE MemMove(str, d, s, n - 1)

MoveTail(str, d, s, n) ==
    IF n < 0 THEN MemMove(str, d, s, Len(str)) ELSE MemMove(str, d, s, n)

MoveHi(str, d, n) == IF n < 0 THEN Len(str) ELSE d + n - 1

RECURSIVE ReplaceLoop(_, _, _, _, _, _, _, _)
ReplaceLoop(str, maxL, currentLen, p, from, to, ignoreCase, hi) ==
    LET rel == IF ignoreCase THEN strcasestr(CStr(str, p), from)
               ELSE strstr(CStr(str, p), from)
        q == p + rel
        fromLen == Len(from)
        toLen == Len(to)
        n == currentLen - (q + fromLen) + 1
    IN IF rel = NoMatch
       THEN [buffer |-> str, curLen |-> currentLen, hi |-> hi, truncated |-> FALSE]
       ELSE IF toLen > fromLen
       THEN IF currentLen + (toLen - fromLen) >= maxL
            THEN [buffer |-> str, curLen |-> currentLen, hi |-> hi, truncated |-> TRUE]
            ELSE ReplaceLoop(PutSeq(MoveTail(str, q + toLen, q + fromLen, n), q, to, toLen),
                             maxL, currentLen + (toLen - fromLen), q + toLen, from, to,
                             ignoreCase, Max(hi, Max(MoveHi(str, q + toLen, n), q + toLen - 1)))
       ELSE IF toLen < fromLen
       THEN ReplaceLoop(PutSeq(MoveTail(str, q + toLen, q + fromLen, n), q, to, toLen),
                        maxL, SizeT(currentLen - (fromLen - toLen)), q + toLen, from, to,
                        ignoreCase, Max(hi, Max(MoveHi(str, q + toLen, n), q + toLen - 1)))
       ELSE ReplaceLoop(PutSeq(str, q, to, toLen), maxL, currentLen, q + toLen, from, to,
                        ignoreCase, Max(hi, q + toLen - 1))

(* replace that gives the whole operation up when the capacity is reached *)
replace_abortWhole(str, maxL, curL, from, to, ignoreCase) ==
    IF from = NullPtr \/ to = NullPtr \/ from = <<>> THEN Res(str, curL, -1)
    ELSE LET r == ReplaceLoop(str, maxL, curL, 0, from, to, ignoreCase, -1)
         IN IF r.truncated THEN Res(str, curL, -1)
            ELSE Res(r.buffer, r.curLen, r.hi)

replace(str, maxL, curL, from, to, ignoreCase) ==
    IF from = NullPtr \/ to = NullPtr \/ from = <<>> THEN Res(str, curL, -1)
    ELSE LET r == ReplaceLoop(str, maxL, curL, 0, from, to, ignoreCase, -1)
         IN IF r.truncated
            THEN LET z == sanitizeUtf8(r.buffer, maxL)
                 IN Res(z.buffer, z.curLen, Max(r.hi, z.hi))
            ELSE Res(r.buffer, r.curLen, r.hi)

----------------------------------------------------------------------------
(* substring: the destination is modelled by its resulting C string *)

(* substring that looks for the end from the start of the text *)
substring_endFromSrc(src, destLen, left, right) ==
    LET empty == [dest |-> <<>>, ret |-> 0]
        startPtr == findUtf8CharStart(src, 0, left)
        endPtr == IF right = 0 THEN StrEnd(src, 0)
                  ELSE findUtf8CharStart(src, 0, right - left)
        byteLen == IF endPtr - startPtr >= destLen THEN destLen - 1 ELSE endPtr - startPtr
    IN IF destLen = 0 THEN empty
       ELSE IF At(src, startPtr) = NUL THEN empty
       ELSE IF right # 0 /\ right <= left THEN empty
       ELSE IF endPtr <= startPtr THEN empty
       ELSE [dest |-> SubSeq(src, startPtr + 1, startPtr + byteLen), ret |-> byteLen]

substring(src, destLen, left, right) ==
    LET empty == [dest |-> <<>>, ret |-> 0]
        startPtr == findUtf8CharStart(src, 0, left)
        endPtr == IF right = 0 THEN StrEnd(src, 0)
                  ELSE findUtf8CharStart(src, startPtr, right - left)
        byteLen == IF endPtr - startPtr >= destLen THEN destLen - 1 ELSE endPtr - startPtr
    IN IF destLen = 0 THEN empty
       ELSE IF At(src, startPtr) = NUL THEN empty
       ELSE IF right # 0 /\ right <= left THEN empty
       ELSE IF endPtr <= startPtr THEN empty
       ELSE [dest |-> SubSeq(src, startPtr + 1, startPtr + byteLen), ret |-> byteLen]

----------------------------------------------------------------------------
(* split: a token pointer is the C index it points at *)

RECURSIVE SplitPtrLoop(_, _, _, _, _)
SplitPtrLoop(str, delimiter, maxTokens, p, tokens) ==
    IF At(str, p) = NUL THEN [buffer |-> str, tokens |-> tokens]
    ELSE IF At(str, p) = delimiter
         THEN IF Len(tokens) < maxTokens
              THEN SplitPtrLoop(Put(str, p, NUL), delimiter, maxTokens, p + 1,
                                Append(tokens, p + 1))
              ELSE [buffer |-> str, tokens |-> tokens]
         ELSE SplitPtrLoop(str, delimiter, maxTokens, p + 1, tokens)

(* destructive split(char*, char, char**, size_t) *)
splitPtr(str, delimiter, maxTokens) ==
    IF maxTokens = 0 THEN [buffer |-> str, tokens |-> <<>>]
    ELSE SplitPtrLoop(str, delimiter, maxTokens, 0, <<0>>)

Token(ptr, len) == [ptr |-> ptr, len |-> len]

RECURSIVE SplitTokenLoop(_, _, _, _, _, _)
SplitTokenLoop(str, delimiter, maxTokens, p, start, tokens) ==
    IF At(str, p) = NUL THEN Append(tokens, Token(start, p - start))
    ELSE IF At(str, p) = delimiter
         THEN IF Len(tokens) < maxTokens - 1
              THEN SplitTokenLoop(str, delimiter, maxTokens, p + 1, p + 1,
                                  Append(tokens, Token(start, p - start)))
              ELSE Append(tokens, Token(start, p - start))
         ELSE SplitTokenLoop(str, delimiter, maxTokens, p + 1, start, tokens)

(* non-destructive split(const char*, char, Token*, size_t) *)
splitToken(str, delimiter, maxTokens) ==
    IF maxTokens = 0 THEN <<>> ELSE SplitTokenLoop(str, delimiter, maxTokens, 0, 0, <<>>)

----------------------------------------------------------------------------
(* appendPrintf.  format is the byte sequence of the format string (its
   terminator is the NUL read behind the last element); args is the va_list:
   an integer for d, u, x, X, c and the l variants, a value in 1/1000 for f,
   a byte sequence or NullPtr for s. *)

NullText == <<40, 110, 117, 108, 108, 41>>

(* strchr(p, c): C index of the first c at or after p, -1 for a null pointer *)
StrChr(str, p, c) ==
    LET e == StrEnd(str, p)
        hits == {i \in p..(e - 1) : str[i + 1] = c}
    IN IF hits = {} THEN -1 ELSE CHOOSE i \in hits : \A o \in hits : i <= o

(* a call's result folded into the running state of the interpreter *)
Then(st, r) == Res(r.buffer, r.curLen, Max(st.hi, r.hi))

RECURSIVE ParseWidth(_, _, _)
ParseWidth(format, p, width) ==
    IF isDigit(At(format, p))
    THEN ParseWidth(format, p + 1,
                    IF width < 100 THEN width * 10 + (At(format, p) - ChZero) ELSE width)
    ELSE [p |-> p, val |-> width]

RECURSIVE ParsePrecision(_, _, _)
ParsePrecision(format, p, precision) ==
    IF isDigit(At(format, p))
    THEN ParsePrecision(format, p + 1, precision * 10 + (At(format, p) - ChZero))
    ELSE [p |-> p, val |-> precision]

(* the switch on the type character at p: the state after the directive,
   the C index of the last byte the directive used and the next argument *)
Directive(st, maxL, format, p, args, ai, width, padChar, precision) ==
    LET c == At(format, p)
        c1 == At(format, p + 1)
        arg == args[ai + 1]
        D(r, last, next) == [st |-> Then(st, r), p |-> last, ai |-> next]
    IN CASE c = 115 ->
              LET src == IF arg = NullPtr THEN NullText ELSE arg
              IN D(append(st.buffer, maxL, st.curLen, src, Len(src)), p, ai + 1)
         [] c = 100 ->
              D(appendInt(st.buffer, maxL, st.curLen, arg, width, padChar), p, ai + 1)
         [] c = 117 ->
              D(appendUIntInternal(st.buffer, maxL, st.curLen, arg, width, padChar), p, ai + 1)
         [] c = 120 ->
              D(appendHexInternal(st.buffer, maxL, st.curLen, arg, width, padChar, FALSE),
                p, ai + 1)
         [] c = 88 ->
              D(appendHexInternal(st.buffer, maxL, st.curLen, arg, width, padChar, TRUE),
                p, ai + 1)
         [] c = 108 /\ c1 = 100 ->
              D(appendInt(st.buffer, maxL, st.curLen, arg, width, padChar), p + 1, ai + 1)
         [] c = 108 /\ c1 = 117 ->
              D(appendUIntInternal(st.buffer, maxL, st.curLen, arg, width, padChar),
                p + 1, ai + 1)
         [] c = 108 /\ c1 = 120 ->
              D(appendHexInternal(st.buffer, maxL, st.curLen, arg, width, padChar, FALSE),
                p + 1, ai + 1)
         [] c = 108 /\ c1 = 88 ->
              D(appendHexInternal(st.buffer, maxL, st.curLen, arg, width, padChar, TRUE),
                p + 1, ai + 1)
         [] c = 108 /\ c1 \notin {100, 117, 120, 88} ->
              [st |-> st, p |-> p, ai |-> ai]
         [] c = 102 ->
              D(appendFloat(st.buffer, maxL, st.curLen, arg,
                            IF precision >= 0 THEN precision ELSE 2), p, ai + 1)
         [] c = 99 ->
              D(append(st.buffer, maxL, st.curLen, <<arg>>, 1), p, ai + 1)
         [] c = ChPercent ->
              D(append(st.buffer, maxL, st.curLen, <<ChPercent>>, 1), p, ai)
         [] OTHER ->
              LET r1 == Then(st, append(st.buffer, maxL, st.curLen, <<ChPercent>>, 1))
              IN [st |-> Then(r1, append(r1.buffer, maxL, r1.curLen, <<c>>, 1)),
                  p |-> p, ai |-> ai]

RECURSIVE PrintfLoop(_, _, _, _, _, _)
PrintfLoop(st, maxL, format, p, args, ai) ==
    IF At(format, p) = NUL
    THEN [buffer |-> st.buffer, curLen |-> st.curLen, hi |-> st.hi, p |-> p]
    ELSE LET nextPercent == StrChr(format, p, ChPercent)
             literalLen == IF nextPercent = p THEN 0
                           ELSE IF nextPercent # -1 THEN nextPercent - p
                           ELSE StrEnd(format, p) - p
             st1 == IF nextPercent # p
                    THEN Then(st, append(st.buffer, maxL, st.curLen,
                                         SubSeq(format, p + 1, p + literalLen), literalLen))
                    ELSE st
             p1 == p + literalLen
         IN IF nextPercent # p /\ At(format, p1) = NUL
            THEN [buffer |-> st1.buffer, curLen |-> st1.curLen, hi |-> st1.hi, p |-> p1]
            ELSE IF At(format, p1 + 1) = NUL
            THEN PrintfLoop(st1, maxL, format, p1 + 1, args, ai)
            ELSE LET zero == At(format, p1 + 1) = ChZero
                     w == ParseWidth(format, IF zero THEN p1 + 2 ELSE p1 + 1, 0)
                     dot == At(format, w.p) = ChDot
                     pr == IF dot THEN ParsePrecision(format, w.p + 1, 0)
                           ELSE [p |-> w.p, val |-> -1]
                     d == Directive(st1, maxL, format, pr.p, args, ai, w.val,
                                    IF zero THEN ChZero ELSE ChSpace, pr.val)
                 IN PrintfLoop(d.st, maxL, format, d.p + 1, args, d.ai)

(* p is where the interpreter's cursor stopped: behind Len(format) it has run
   past the terminator of the format string *)
appendPrintf(buffer, maxL, curL, format, args) ==
    PrintfLoop(Res(buffer, curL, -1), maxL, format, 0, args, 0)

----------------------------------------------------------------------------
(* The mutation machine: one buffer and the calls that change it *)

NoOp == [op |-> "none"]

Zeros(n) == [k \in 1..n |-> NUL]

(* the content: the C string at the start of the buffer *)
Content == CStr(mem, 0)

(* no terminator inside the buffer: a scan for it reads behind the buffer *)
Unterminated(m, maxL) == StrEnd(m, 0) >= maxL

AppendTexts == {<<97, 98, 99>>, <<195, 169>>, <<32, 98, 32>>}
InsertTexts == {<<97>>, <<195, 169>>}
IntValues == {7, -100}
IntFormats == {<<0, ChSpace>>, <<3, ChZero>>}
FloatValues == {-700, 1007}
FloatPlaces == {0, 2}
ReplaceCases == {<<<<97>>, <<98, 98>>, FALSE>>, <<<<98>>, <<>>, FALSE>>,
                 <<<<65>>, <<195, 169>>, TRUE>>}
PrintfCases == {<<<<37, 100>>, <<-7>>>>,
                <<<<97, 37, 115>>, <<<<98>>>>>>,
                <<<<37, 48, 50, 120>>, <<10>>>>,
                <<<<37, 37, 37, 99>>, <<98>>>>,
                <<<<37, 98>>, <<>>>>}
MaxCharIdx == 3
RemoveCounts == {1, 3}

Init ==
    /\ maxLen \in 1..MaxCap
    /\ mem = Zeros(maxLen)
    /\ curLen = 0
    /\ hiWrite = -1
    /\ ub = FALSE
    /\ trace = FALSE
    /\ lastOp = NoOp
    /\ out = <<>>
    /\ NoQueue

(* the state after a mutating call with result r; oobRead tells that the call
   read behind the end of the buffer or of an argument string *)
Mutate(r, oobRead, op) ==
    /\ mem' = r.buffer
    /\ curLen' = r.curLen
    /\ hiWrite' = r.hi
    /\ ub' = (r.hi >= maxLen \/ oobRead)
    /\ lastOp' = IF trace THEN op ELSE [op |-> op.op]
    /\ UNCHANGED <<maxLen, trace, out, qvars>>

AppendText(src) ==
    /\ ~ub
    /\ Mutate(append(mem, maxLen, curLen, src, Len(src)), FALSE,
           [op |-> "append", src |-> src, pre |-> Content, preLen |-> curLen])

AppendInt(val, width, padChar) ==
    /\ ~ub
    /\ Mutate(appendInt(mem, maxLen, curLen, val, width, padChar), FALSE,
           [op |-> "appendInt", val |-> val, width |-> width, pre |-> Content,
            preLen |-> curLen])

AppendFloat(milli, decimalPlaces) ==
    /\ ~ub
    /\ Mutate(appendFloat(mem, maxLen, curLen, milli, decimalPlaces), FALSE,
           [op |-> "appendFloat", val |-> milli, places |-> decimalPlaces,
            pre |-> Content, preLen |-> curLen])

AppendPrintf(format, args) ==
    LET r == appendPrintf(mem, maxLen, curLen, format, args)
    IN /\ ~ub
       /\ Mutate(r, r.p > Len(format),
                 [op |-> "appendPrintf", format |-> format, args |-> args,
                  pre |-> Content, preLen |-> curLen, p |-> r.p])

Insert(charIdx, src) ==
    /\ ~ub
    /\ Mutate(insert(mem, maxLen, curLen, charIdx, src), Unterminated(mem, maxLen),
           [op |-> "insert", idx |-> charIdx, src |-> src, pre |-> Content,
            preLen |-> curLen])

Remove(charIdx, charCount) ==
    /\ ~ub
    /\ Mutate(remove(mem, curLen, charIdx, charCount), Unterminated(mem, maxLen),
           [op |-> "remove", idx |-> charIdx, cnt |-> charCount, pre |-> Content,
            preLen |-> curLen])

Replace(from, to, ignoreCase) ==
    /\ ~ub
    /\ Mutate(replace(mem, maxLen, curLen, from, to, ignoreCase),
              Unterminated(mem, maxLen),
           [op |-> "replace", from |-> from, to |-> to, ic |-> ignoreCase,
            pre |-> Content, preLen |-> curLen])

Trim ==
    /\ ~ub
    /\ Mutate(trim(mem), Unterminated(mem, maxLen),
              [op |-> "trim", pre |-> Content, preLen |-> curLen])

Next ==
    \/ \E src \in AppendTexts : AppendText(src)
    \/ \E val \in IntValues, f \in IntFormats : AppendInt(val, f[1], f[2])
    \/ \E milli \in FloatValues, dp \in FloatPlaces : AppendFloat(milli, dp)
    \/ \E c \in PrintfCases : AppendPrintf(c[1], c[2])
    \/ \E i \in 0..MaxCharIdx, src \in InsertTexts : Insert(i, src)
    \/ \E i \in 0..MaxCharIdx, n \in RemoveCounts : Remove(i, n)
    \/ \E c \in ReplaceCases : Replace(c[1], c[2], c[3])
    \/ Trim

Spec == Init /\ [][Next]_vars

(* C1: after every call of append, appendInt, appendFloat, appendPrintf,
   insert, remove, replace and trim the byte at index curLen is the
   terminator. *)
C1_TerminatorAtLen == At(mem, curLen) = NUL

BoundedCalls == {"append", "appendInt", "appendFloat", "appendPrintf", "insert", "replace"}

(* C2: no call of append, appendInt, appendFloat, appendPrintf, insert or
   replace writes a byte at an index >= maxLen, and the tracked length is at
   most maxLen - 1 after the call. *)
C2_CapacityBound ==
    lastOp.op \in BoundedCalls => hiWrite < maxLen /\ curLen <= maxLen - 1

----------------------------------------------------------------------------
(* Queries on the buffer: they leave the buffer alone and put their result
   in out *)

Query(result, op) ==
    /\ out' = result
    /\ lastOp' = IF trace THEN op ELSE NoOp
    /\ UNCHANGED <<svars, qvars>>

Substring(destLen, left, right) ==
    /\ ~ub
    /\ Query(substring(mem, destLen, left, right),
             [op |-> "substring", destLen |-> destLen, left |-> left, right |-> right,
              pre |-> Content, preLen |-> curLen])

(* the second call of the round trip remove(insert(buf, i, t), i, charLen(t)) *)
RemoveInserted ==
    /\ ~ub
    /\ lastOp.op = "insert"
    /\ Mutate(remove(mem, curLen, lastOp.idx, utf8_strlen(lastOp.src)),
              Unterminated(mem, maxLen),
              [op |-> "remove", idx |-> lastOp.idx, cnt |-> utf8_strlen(lastOp.src),
               pre |-> Content, preLen |-> curLen, inserted |-> lastOp])

----------------------------------------------------------------------------
(* Calls on a buffer that holds text, well-formed UTF-8 or not *)

MaxChars == 2        \* characters of the initial content and of a text argument
MaxRoom == 3         \* free bytes of the buffer beyond the initial content
MaxIndex == 3        \* largest character index passed to a call
BigDest == 16        \* a destination capacity that holds every modelled range

(* one character of each encoded length up to three bytes, and a lone
   continuation byte *)
TextAlphabet == {<<97>>, <<195, 169>>, <<237, 149, 156>>, <<128>>}

RECURSIVE Flatten(_)
Flatten(ss) == IF ss = <<>> THEN <<>> ELSE Head(ss) \o Flatten(Tail(ss))

TextsUpTo(n) == {Flatten(cs) : cs \in UNION {[1..k -> TextAlphabet] : k \in 0..n}}

DestLens == (0..3) \cup {BigDest}

InitText ==
    /\ \E s \in TextsUpTo(MaxChars), room \in 0..MaxRoom :
          /\ maxLen = Len(s) + 1 + room
          /\ mem = s \o Zeros(1 + room)
          /\ curLen = Len(s)
    /\ hiWrite = -1
    /\ ub = FALSE
    /\ trace = TRUE
    /\ lastOp = NoOp
    /\ out = <<>>
    /\ NoQueue

NextText ==
    \/ \E src \in TextsUpTo(MaxChars) : lastOp = NoOp /\ AppendText(src)
    \/ \E i \in 0..MaxIndex, src \in TextsUpTo(MaxChars) : lastOp = NoOp /\ Insert(i, src)
    \/ \E d \in DestLens, l \in 0..MaxIndex, r \in 0..MaxIndex :
          lastOp = NoOp /\ Substring(d, l, r)
    \/ RemoveInserted

SpecText == InitText /\ [][NextText]_vars

----------------------------------------------------------------------------
(* The characters of a valid UTF-8 text, read off the lead bytes *)

LeadLen(b) == IF b < 128 THEN 1 ELSE IF b < 224 THEN 2 ELSE IF b < 240 THEN 3 ELSE 4

RECURSIVE Chars(_)
Chars(s) ==
    IF s = <<>> THEN <<>>
    ELSE LET n == Min(LeadLen(s[1]), Len(s))
         IN  <<SubSeq(s, 1, n)>> \o Chars(SubSeq(s, n + 1, Len(s)))

CharCount(s) == Len(Chars(s))

(* characters i .. j-1 of s, as bytes *)
CharRange(s, i, j) == Flatten(SubSeq(Chars(s), i + 1, j))

(* C3: append, insert and substring called with valid UTF-8 content and a
   valid UTF-8 text leave valid UTF-8 in the buffer (in the destination for
   substring), also when the result had to be clipped to the capacity: no
   multi-byte character is split. *)
C3_NoSplitOnClip ==
    /\ (lastOp.op \in {"append", "insert"}
          /\ validateUtf8(lastOp.pre) /\ validateUtf8(lastOp.src)
          => validateUtf8(Content))
    /\ (lastOp.op = "substring" /\ validateUtf8(lastOp.pre)
          => validateUtf8(CStr(out.dest, 0)))

(* C4 as stated: for i <= j <= charCount(s) and a destination that holds the
   range, substring(s, i, j) is characters i .. j-1 of s, so it has exactly
   j - i characters; i = j = 0 included. *)
C4_SubstringCount ==
    lastOp.op = "substring"
      /\ validateUtf8(lastOp.pre)
      /\ lastOp.left <= lastOp.right
      /\ lastOp.right <= CharCount(lastOp.pre)
      /\ lastOp.destLen > Len(CharRange(lastOp.pre, lastOp.left, lastOp.right))
    => /\ CStr(out.dest, 0) = CharRange(lastOp.pre, lastOp.left, lastOp.right)
       /\ utf8_strlen(out.dest) = lastOp.right - lastOp.left
       /\ validateUtf8(out.dest)

(* C4 amended: the same for 1 <= j, where j = 0 is the code's "to the end of
   the text" and so outside the claim. *)
C4_SubstringCountFrom1 ==
    lastOp.op = "substring"
      /\ validateUtf8(lastOp.pre)
      /\ lastOp.left <= lastOp.right
      /\ 1 <= lastOp.right
      /\ lastOp.right <= CharCount(lastOp.pre)
      /\ lastOp.destLen > Len(CharRange(lastOp.pre, lastOp.left, lastOp.right))
    => /\ CStr(out.dest, 0) = CharRange(lastOp.pre, lastOp.left, lastOp.right)
       /\ utf8_strlen(out.dest) = lastOp.right - lastOp.left
       /\ validateUtf8(out.dest)
       /\ out.ret = Len(CharRange(lastOp.pre, lastOp.left, lastOp.right))

(* a range of two characters, one of them multi-byte, was extracted *)
C4_Witness ==
    /\ lastOp.op = "substring"
    /\ validateUtf8(lastOp.pre)
    /\ lastOp.left = 1 /\ lastOp.right = 2
    /\ CharCount(lastOp.pre) = 2
    /\ lastOp.destLen = BigDest
    /\ Len(CStr(out.dest, 0)) > 1

(* remove(i, charLen(t)) was called right after an untruncated insert(i, t) *)
RoundTrip ==
    /\ lastOp.op = "remove"
    /\ lastOp.inserted.op = "insert"
    /\ lastOp.idx = lastOp.inserted.idx
    /\ lastOp.cnt = utf8_strlen(lastOp.inserted.src)
    /\ lastOp.inserted.src # <<>>
    /\ lastOp.inserted.preLen + Len(lastOp.inserted.src) < maxLen

Restored ==
    /\ Content = lastOp.inserted.pre
    /\ curLen = lastOp.inserted.preLen

(* C7 as stated: for every buffer, every character index i, also beyond the
   character count, and every non-empty text t, removing charLen(t)
   characters at i after an untruncated insert of t at i restores the
   content and the length of the buffer. *)
C7_RoundTrip == RoundTrip => Restored

(* C7 amended: the same for i <= charCount(buf), with buf and t valid
   UTF-8. *)
C7_RoundTripInside ==
    RoundTrip
      /\ lastOp.idx <= CharCount(lastOp.inserted.pre)
      /\ validateUtf8(lastOp.inserted.pre)
      /\ validateUtf8(lastOp.inserted.src)
    => Restored

(* a two-character text with a multi-byte character went in between two
   characters of the buffer, and came out again *)
C7_Witness ==
    /\ RoundTrip
    /\ validateUtf8(lastOp.inserted.pre)
    /\ validateUtf8(lastOp.inserted.src)
    /\ lastOp.idx = 1
    /\ CharCount(lastOp.inserted.pre) = 2
    /\ lastOp.cnt = 2
    /\ Len(lastOp.inserted.src) > 2
    /\ Restored

----------------------------------------------------------------------------
(* Searching a text the buffer holds *)

MaxHay == 5          \* bytes of the searched text
MaxNeedle == 3       \* bytes of the needle

SearchBytes == {97, 65, 98}

BytesUpTo(alphabet, n) == UNION {[1..k -> alphabet] : k \in 0..n}

StrCaseStr(needle) ==
    /\ ~ub
    /\ Query([match |-> strcasestr(Content, needle)],
             [op |-> "strcasestr", needle |-> needle, pre |-> Content, preLen |-> curLen])

StrStr(needle) ==
    /\ ~ub
    /\ Query([match |-> strstr(Content, needle)],
             [op |-> "strstr", needle |-> needle, pre |-> Content, preLen |-> curLen])

InitSearch ==
    /\ \E s \in BytesUpTo(SearchBytes, MaxHay) :
          /\ maxLen = Len(s) + 1
          /\ mem = s \o Zeros(1)
          /\ curLen = Len(s)
    /\ hiWrite = -1
    /\ ub = FALSE
    /\ trace = TRUE
    /\ lastOp = NoOp
    /\ out = <<>>
    /\ NoQueue

NextSearch ==
    \/ \E n \in BytesUpTo(SearchBytes, MaxNeedle) : lastOp = NoOp /\ StrCaseStr(n)
    \/ \E n \in BytesUpTo(SearchBytes, MaxNeedle) \ {<<>>} : lastOp = NoOp /\ StrStr(n)

SpecSearch == InitSearch /\ [][NextSearch]_vars

(* C10: for every haystack and every non-empty needle of at most 64 bytes,
   the KMP branch of strcasestr returns the position (or the no-match) that
   the naive first-byte-filtered scan returns on the same inputs. *)
C10_KmpIsNaive ==
    lastOp.op = "strcasestr" /\ lastOp.needle # <<>> /\ Len(lastOp.needle) <= KmpLimit
    => out.match = NaiveSearch(lastOp.pre, lastOp.needle)

(* the needle "aab" was found in "aaab": the scan had to fall back through
   the prefix table *)
C10_Witness ==
    /\ lastOp.op = "strcasestr"
    /\ lastOp.needle = <<97, 65, 98>>
    /\ lastOp.pre = <<65, 97, 97, 98>>
    /\ out.match = 1

----------------------------------------------------------------------------
(* Splitting a text the buffer holds *)

MaxSplitLen == 5     \* bytes of the text that is split
MaxTokens == 3       \* slots of the token array

SplitDelimiters == {58}

SplitBytes == {97, 98} \cup SplitDelimiters

(* "SSID:MyHome:WPA2" *)
WifiText == <<83, 83, 73, 68, 58, 77, 121, 72, 111, 109, 101, 58, 87, 80, 65, 50>>

(* the destructive form writes terminators into the buffer; its tokens are
   the C strings at the pointers it stored *)
SplitInPlace(delimiter, maxTokens) ==
    /\ ~ub
    /\ LET r == splitPtr(mem, delimiter, maxTokens)
       IN  /\ mem' = r.buffer
           /\ out' = [k \in 1..Len(r.tokens) |-> CStr(r.buffer, r.tokens[k])]
    /\ lastOp' = [op |-> "split", form |-> "pointers", delimiter |-> delimiter,
                  maxTokens |-> maxTokens, pre |-> Content, preLen |-> curLen]
    /\ UNCHANGED <<maxLen, curLen, hiWrite, ub, trace, qvars>>

(* the non-destructive form returns views; a view's text is the len bytes at
   ptr *)
SplitViews(delimiter, maxTokens) ==
    /\ ~ub
    /\ LET ts == splitToken(mem, delimiter, maxTokens)
       IN  Query([k \in 1..Len(ts) |-> SubSeq(mem, ts[k].ptr + 1, ts[k].ptr + ts[k].len)],
                 [op |-> "split", form |-> "views", delimiter |-> delimiter,
                  maxTokens |-> maxTokens, pre |-> Content, preLen |-> curLen])

InitSplit ==
    /\ \E s \in BytesUpTo(SplitBytes, MaxSplitLen) \cup {WifiText} :
          /\ maxLen = Len(s) + 1
          /\ mem = s \o Zeros(1)
          /\ curLen = Len(s)
    /\ hiWrite = -1
    /\ ub = FALSE
    /\ trace = TRUE
    /\ lastOp = NoOp
    /\ out = <<>>
    /\ NoQueue

NextSplit ==
    \/ \E d \in SplitDelimiters, n \in 0..MaxTokens : lastOp = NoOp /\ SplitInPlace(d, n)
    \/ \E d \in SplitDelimiters, n \in 0..MaxTokens : lastOp = NoOp /\ SplitViews(d, n)

SpecSplit == InitSplit /\ [][NextSplit]_vars

(* the delimiter-separated fields of s, in order *)
RECURSIVE Fields(_, _)
Fields(s, d) ==
    IF \A k \in 1..Len(s) : s[k] # d THEN <<s>>
    ELSE LET k == CHOOSE i \in 1..Len(s) : s[i] = d /\ \A j \in 1..(i - 1) : s[j] # d
         IN  <<SubSeq(s, 1, k - 1)>> \o Fields(SubSeq(s, k + 1, Len(s)), d)

(* the fields joined again with the delimiter *)
RECURSIVE Join(_, _)
Join(fs, d) ==
    IF Len(fs) = 1 THEN fs[1] ELSE fs[1] \o <<d>> \o Join(Tail(fs), d)

(* at most max tokens: the first max - 1 fields, then the whole remainder *)
FieldsCapped(s, d, max) ==
    LET fs == Fields(s, d)
    IN  IF Len(fs) <= max THEN fs
        ELSE SubSeq(fs, 1, max - 1) \o <<Join(SubSeq(fs, max, Len(fs)), d)>>

(* C8: both forms of split return the delimiter-separated fields in order and
   never more than max tokens; with more fields than slots the last token is
   the whole remainder of the text, later delimiters included. *)
C8_SplitFields ==
    lastOp.op = "split" /\ lastOp.maxTokens >= 1
    => out = FieldsCapped(lastOp.pre, lastOp.delimiter, lastOp.maxTokens)

----------------------------------------------------------------------------
(* Sanitizing and validating arbitrary bytes *)

MaxSanLen == 4       \* bytes of the text that is sanitized

(* ASCII, two continuation bytes and the lead bytes of a two-, three- and
   four-byte sequence *)
SanBytes == {97, 128, 195, 239, 191, 240}

(* what the bytes behind the terminator may hold *)
StaleBytes == {NUL, 128}

Sanitize ==
    /\ ~ub
    /\ lastOp.op \in {"none", "sanitize"}
    /\ Mutate(sanitizeUtf8(mem, maxLen), Unterminated(mem, maxLen),
              [op |-> "sanitize", pre |-> Content, preLen |-> curLen,
               n |-> IF lastOp.op = "sanitize" THEN lastOp.n + 1 ELSE 1])

Validate ==
    /\ ~ub
    /\ lastOp.op # "validate"
    /\ Query([valid |-> validateUtf8(mem)],
             [op |-> "validate", pre |-> Content, preLen |-> curLen])

InitSanitize ==
    /\ \E s \in BytesUpTo(SanBytes, MaxSanLen), cap \in {1, 2, 4}, stale \in StaleBytes :
          /\ maxLen = (IF cap = 4 THEN 3 * Len(s) ELSE Len(s)) + cap
          /\ mem = s \o <<NUL>> \o [k \in 1..(maxLen - Len(s) - 1) |-> stale]
          /\ curLen = Len(s)
    /\ hiWrite = -1
    /\ ub = FALSE
    /\ trace = TRUE
    /\ lastOp = NoOp
    /\ out = <<>>
    /\ NoQueue

NextSanitize ==
    \/ (lastOp.op = "sanitize" => lastOp.n < 2) /\ Sanitize
    \/ Validate

SpecSanitize == InitSanitize /\ [][NextSanitize]_vars

(* the text with every byte that starts no well-formed sequence replaced by
   one marker, every well-formed sequence kept *)
RECURSIVE Marked(_)
Marked(s) ==
    IF s = <<>> THEN <<>>
    ELSE LET n == SeqLenAt(s, 0)
         IN  IF n = 0 THEN Replacement \o Marked(Tail(s))
             ELSE SubSeq(s, 1, n) \o Marked(SubSeq(s, n + 1, Len(s)))

(* C5: with enough capacity sanitize keeps every valid sequence of the input
   and puts exactly one marker in the place of every invalid byte; the valid
   bytes that follow an invalid byte stay as they are. *)
C5_OneMarkerPerByte ==
    lastOp.op = "sanitize" /\ lastOp.n = 1 /\ Len(Marked(lastOp.pre)) < maxLen
    => Content = Marked(lastOp.pre)

(* C6: after sanitize the buffer validates, and a second sanitize changes
   neither the content nor the length. *)
C6_ValidAndIdempotent ==
    lastOp.op = "sanitize"
    => /\ validateUtf8(mem)
       /\ curLen = Len(Content)
       /\ lastOp.n = 2 => Content = lastOp.pre /\ curLen = lastOp.preLen

(* an invalid text that got markers was sanitized a second time *)
C6_Witness ==
    /\ lastOp.op = "sanitize" /\ lastOp.n = 2
    /\ \E k \in 1..(Len(Content) - 2) : SubSeq(Content, k, k + 2) = Replacement
    /\ \E k \in 1..Len(Content) : Content[k] = ChQuestion

----------------------------------------------------------------------------
(* Appending texts to an empty buffer of the capacity of the "Hello" example *)

ScenarioCap == 16

Hello == <<72, 101, 108, 108, 111>>
CommaWorld == <<44, 32, 87, 111, 114, 108, 100, 33>>

ScenarioTexts == {Hello, CommaWorld, <<33>>}

InitScenario ==
    /\ maxLen = ScenarioCap
    /\ mem = Zeros(maxLen)
    /\ curLen = 0
    /\ hiWrite = -1
    /\ ub = FALSE
    /\ trace = TRUE
    /\ lastOp = NoOp
    /\ out = <<>>
    /\ NoQueue

NextScenario == \E src \in ScenarioTexts : AppendText(src)

SpecScenario == InitScenario /\ [][NextScenario]_vars

(* append(", World!") was called on the buffer that append("Hello") filled *)
HelloThenWorld ==
    /\ lastOp.op = "append"
    /\ lastOp.pre = Hello
    /\ lastOp.src = CommaWorld

(* C9 as stated: in a buffer of capacity 16, append("Hello") and then
   append(", World!") leave the content "Hello, Worl". *)
C9_HelloWorl ==
    HelloThenWorld => Content = Hello \o SubSeq(CommaWorld, 1, 6)

(* C9 amended: the 13 bytes fit, the content is "Hello, World!" and nothing
   is truncated. *)
C9_HelloWorld ==
    HelloThenWorld
    => /\ Content = Hello \o CommaWorld
       /\ curLen = Len(Hello) + Len(CommaWorld)
       /\ At(mem, curLen) = NUL

C9_Witness == HelloThenWorld /\ maxLen = ScenarioCap /\ curLen > Len(Hello)

----------------------------------------------------------------------------
(* Queries on a text the buffer holds, and calls with a null or empty
   argument *)

MaxQueryChars == 3      \* characters of the queried text
MaxPatternChars == 2    \* characters of the pattern
MaxStartChar == 4       \* largest startChar of indexOf

QueryAlphabet == {<<97>>, <<65>>, <<195, 169>>}

QueryTexts(n) == {Flatten(cs) : cs \in UNION {[1..k -> QueryAlphabet] : k \in 0..n}}

QueryPatterns == QueryTexts(MaxPatternChars) \cup {NullPtr}

(* the str argument of a query: the buffer, or a null pointer *)
StrArg(nullStr) == IF nullStr THEN NullPtr ELSE mem

QueryOp(name, nullStr, pattern, ignoreCase) ==
    [op |-> name, nullStr |-> nullStr, pattern |-> pattern, ic |-> ignoreCase,
     pre |-> Content, preLen |-> curLen]

Contains(nullStr, target, ignoreCase) ==
    /\ ~ub
    /\ Query([result |-> contains(StrArg(nullStr), target, ignoreCase)],
             QueryOp("contains", nullStr, target, ignoreCase))

StartsWith(nullStr, prefix, ignoreCase) ==
    /\ ~ub
    /\ Query([result |-> startsWith(StrArg(nullStr), prefix, ignoreCase)],
             QueryOp("startsWith", nullStr, prefix, ignoreCase))

EndsWith(nullStr, suffix, ignoreCase) ==
    /\ ~ub
    /\ Query([result |-> endsWith(StrArg(nullStr), suffix, ignoreCase)],
             QueryOp("endsWith", nullStr, suffix, ignoreCase))

IndexOf(nullStr, target, startChar, ignoreCase) ==
    /\ ~ub
    /\ Query([result |-> find(StrArg(nullStr), target, startChar, ignoreCase)],
             [op |-> "indexOf", nullStr |-> nullStr, pattern |-> target,
              start |-> startChar, ic |-> ignoreCase, pre |-> Content,
              preLen |-> curLen])

LastIndexOf(nullStr, target, ignoreCase) ==
    /\ ~ub
    /\ Query([result |-> lastIndexOf(StrArg(nullStr), target, ignoreCase)],
             QueryOp("lastIndexOf", nullStr, target, ignoreCase))

ReplaceArgs == {NullPtr, <<>>, <<97>>}
InsertArgs == {NullPtr, <<>>, <<65>>}

InitQuery ==
    /\ \E s \in QueryTexts(MaxQueryChars) :
          /\ maxLen = Len(s) + 2
          /\ mem = s \o Zeros(2)
          /\ curLen = Len(s)
    /\ hiWrite = -1
    /\ ub = FALSE
    /\ trace = TRUE
    /\ lastOp = NoOp
    /\ out = <<>>
    /\ NoQueue

NextQuery ==
    /\ lastOp = NoOp
    /\ \/ \E n \in BOOLEAN, t \in QueryPatterns, ic \in BOOLEAN : Contains(n, t, ic)
       \/ \E n \in BOOLEAN, t \in QueryPatterns, ic \in BOOLEAN : StartsWith(n, t, ic)
       \/ \E n \in BOOLEAN, t \in QueryPatterns, ic \in BOOLEAN : EndsWith(n, t, ic)
       \/ \E n \in BOOLEAN, t \in QueryPatterns, c \in 0..MaxStartChar, ic \in BOOLEAN :
              IndexOf(n, t, c, ic)
       \/ \E n \in BOOLEAN, t \in QueryPatterns, ic \in BOOLEAN : LastIndexOf(n, t, ic)
       \/ \E from \in ReplaceArgs, to \in ReplaceArgs, ic \in BOOLEAN :
              Replace(from, to, ic)
       \/ \E i \in 0..MaxStartChar, src \in InsertArgs : Insert(i, src)

SpecQuery == InitQuery /\ [][NextQuery]_vars

Malformed(pattern) == pattern = NullPtr \/ pattern = <<>>

(* a query whose str or pattern argument is a null pointer *)
NullQuery == lastOp.nullStr \/ lastOp.pattern = NullPtr

(* a query with a string and the empty pattern *)
EmptyQuery == ~lastOp.nullStr /\ lastOp.pattern = <<>>

(* replace or insert called with a null or empty argument (an empty
   replacement text is a deletion, not a malformed call) *)
MalformedMutation ==
    \/ lastOp.op = "replace" /\ (Malformed(lastOp.from) \/ lastOp.to = NullPtr)
    \/ lastOp.op = "insert" /\ Malformed(lastOp.src)

BufferUnchanged == Content = lastOp.pre /\ curLen = lastOp.preLen /\ ~ub

(* C11 as stated: for a null pointer or an empty pattern contains, startsWith
   and endsWith return false, indexOf and lastIndexOf return not-found, and
   replace and insert leave the buffer and its length unchanged. *)
C11_MalformedIsFalse ==
    /\ lastOp.op \in {"contains", "startsWith", "endsWith"}
       /\ (NullQuery \/ EmptyQuery) => out.result = FALSE
    /\ lastOp.op \in {"indexOf", "lastIndexOf"}
       /\ (NullQuery \/ EmptyQuery) => out.result = -1 /\ BufferUnchanged
    /\ MalformedMutation => BufferUnchanged

(* C11 as the code has it: for a null pointer contains, startsWith and
   endsWith return false, and for the empty pattern on a string they return
   true (every string contains, starts with and ends with the empty string);
   indexOf and lastIndexOf return not-found for both, and replace and insert
   called with a null or empty argument leave the buffer and its length
   unchanged. *)
C11_MalformedIsNeutral ==
    /\ lastOp.op \in {"contains", "startsWith", "endsWith"}
       => /\ NullQuery => out.result = FALSE /\ BufferUnchanged
          /\ EmptyQuery => out.result = TRUE /\ BufferUnchanged
    /\ lastOp.op \in {"indexOf", "lastIndexOf"}
       /\ (NullQuery \/ EmptyQuery) => out.result = -1 /\ BufferUnchanged
    /\ MalformedMutation => BufferUnchanged

(* contains("a\xC3\xA9", "") answered true *)
C11_Witness ==
    /\ lastOp.op = "contains"
    /\ lastOp.pre = <<97, 195, 169>>
    /\ EmptyQuery
    /\ out.result = TRUE

(* the character indices at which needle occurs in text; the empty needle
   occurs nowhere *)
SameChar(a, b, ignoreCase) ==
    /\ Len(a) = Len(b)
    /\ \A k \in 1..Len(a) :
          IF ignoreCase THEN toLower(a[k]) = toLower(b[k]) ELSE a[k] = b[k]

Occurrences(text, needle, ignoreCase) ==
    LET h == Chars(text)
        n == Chars(needle)
    IN {c \in 0..(Len(h) - Len(n)) :
           /\ n # <<>>
           /\ \A k \in 1..Len(n) : SameChar(h[c + k], n[k], ignoreCase)}

(* C20: indexOf(haystack, needle, startChar) on valid UTF-8 returns the
   character index r >= startChar of the first occurrence of needle that
   begins at or after character startChar, and -1 exactly when there is no
   such occurrence (the empty needle has none) or startChar is beyond the
   last character. *)
C20_IndexOfFirst ==
    lastOp.op = "indexOf" /\ ~lastOp.nullStr /\ lastOp.pattern # NullPtr
    => LET occ == {c \in Occurrences(lastOp.pre, lastOp.pattern, lastOp.ic) :
                      c >= lastOp.start}
       IN /\ occ = {} => out.result = -1
          /\ occ # {} => /\ out.result \in occ
                         /\ \A c \in occ : out.result <= c
          /\ lastOp.start >= CharCount(lastOp.pre) => out.result = -1

(* indexOf("a\xC3\xA9a", "a", 1) is 2: the first "a" lies before the start
   and a two-byte character lies between the start and the match *)
C20_Witness ==
    /\ lastOp.op = "indexOf"
    /\ lastOp.pre = <<97, 195, 169, 97>>
    /\ lastOp.pattern = <<97>>
    /\ lastOp.start = 1
    /\ ~lastOp.ic
    /\ out.result = 2

----------------------------------------------------------------------------
(* lastIndexOf against indexOf from character 0, on texts and patterns that
   may hold a stray continuation byte *)

LastAlphabet == {<<97>>, <<169>>, <<195, 169>>}

LastTexts(n) == {Flatten(cs) : cs \in UNION {[1..k -> LastAlphabet] : k \in 0..n}}

InitLast ==
    /\ \E s \in LastTexts(MaxQueryChars) :
          /\ maxLen = Len(s) + 2
          /\ mem = s \o Zeros(2)
          /\ curLen = Len(s)
    /\ hiWrite = -1
    /\ ub = FALSE
    /\ trace = TRUE
    /\ lastOp = NoOp
    /\ out = <<>>
    /\ NoQueue

NextLast ==
    /\ lastOp = NoOp
    /\ \/ \E n \in BOOLEAN, t \in LastTexts(MaxPatternChars) \cup {NullPtr},
              ic \in BOOLEAN : IndexOf(n, t, 0, ic)
       \/ \E n \in BOOLEAN, t \in LastTexts(MaxPatternChars) \cup {NullPtr},
              ic \in BOOLEAN : LastIndexOf(n, t, ic)

SpecLast == InitLast /\ [][NextLast]_vars

(* the byte offsets at which needle occurs in text *)
ByteOccurrences(text, needle, ignoreCase) ==
    {b \in 0..(Len(text) - Len(needle)) :
        /\ needle # <<>>
        /\ SameChar(SubSeq(text, b + 1, b + Len(needle)), needle, ignoreCase)}

(* the last occurrence, as the number of characters that begin before it *)
LastOccurrence(text, needle, ignoreCase) ==
    LET occ == ByteOccurrences(text, needle, ignoreCase)
    IN IF occ = {} THEN -1
       ELSE utf8_strlen(SubSeq(text, 1, CHOOSE b \in occ : \A c \in occ : c <= b))

(* the arguments of the recorded call, as the code received them *)
LastArgs ==
    [str |-> IF lastOp.nullStr THEN NullPtr ELSE lastOp.pre \o <<NUL>>,
     target |-> lastOp.pattern]

LastVsFirst(aligned) ==
    LET first == find(LastArgs.str, LastArgs.target, 0, lastOp.ic)
    IN /\ out.result >= first
       /\ out.result = -1 => first = -1
       /\ aligned => (first = -1 => out.result = -1)
       /\ ~lastOp.nullStr /\ lastOp.pattern # NullPtr
          => out.result = LastOccurrence(lastOp.pre, lastOp.pattern, lastOp.ic)

(* C21 as stated: lastIndexOf(haystack, needle) returns the character index of
   the last occurrence of needle, overlapping occurrences included; it is -1
   exactly when indexOf(haystack, needle, 0) is -1, and it is never smaller
   than indexOf(haystack, needle, 0); the repeated forward search ends for
   every input (each call yields a result). *)
C21_LastIndexOf ==
    lastOp.op = "lastIndexOf" => LastVsFirst(TRUE)

(* C21 as the code has it: the same, except that a haystack which begins
   with a continuation byte can hold the needle inside that leading run,
   where lastIndexOf finds it at index 0 and indexOf, which first aligns to
   a character start, does not find it. *)
C21_LastIndexOfAligned ==
    lastOp.op = "lastIndexOf"
    => LastVsFirst(lastOp.pre = <<>> \/ ~IsCont(lastOp.pre[1]))

(* lastIndexOf("aaa", "aa") is 1: the last occurrence overlaps the first *)
C21_Witness ==
    /\ lastOp.op = "lastIndexOf"
    /\ lastOp.pre = <<97, 97, 97>>
    /\ lastOp.pattern = <<97, 97>>
    /\ ~lastOp.ic
    /\ out.result = 1

----------------------------------------------------------------------------
(* replace on a terminated text with a little room or none behind it *)

MaxReplChars == 3       \* units of the text
MaxReplRoom == 3        \* free bytes behind the terminator

ReplAlphabet == {<<97>>, <<98>>, <<195, 169>>, <<169>>}
ReplFrom == {<<97>>, <<65>>, <<97, 97>>, <<195, 169>>, <<169>>}
ReplTo == {<<>>, <<98>>, <<97, 97>>, <<98, 97>>, <<195, 169>>, <<97, 195, 169>>}

InitReplace ==
    /\ \E cs \in UNION {[1..k -> ReplAlphabet] : k \in 0..MaxReplChars},
          room \in 0..MaxReplRoom :
          /\ maxLen = Len(Flatten(cs)) + 1 + room
          /\ mem = Flatten(cs) \o Zeros(1 + room)
          /\ curLen = Len(Flatten(cs))
    /\ hiWrite = -1
    /\ ub = FALSE
    /\ trace = TRUE
    /\ lastOp = NoOp
    /\ out = <<>>
    /\ NoQueue

NextReplace ==
    /\ lastOp = NoOp
    /\ \E from \in ReplFrom, to \in ReplTo, ic \in BOOLEAN : Replace(from, to, ic)

SpecReplace == InitReplace /\ [][NextReplace]_vars

(* text with the occurrences of from replaced by to, left to right and never
   inside a replacement, for as long as the text may still grow by the
   difference: room is the number of bytes it may grow *)
RECURSIVE Replaced(_, _, _, _, _)
Replaced(text, from, to, ignoreCase, room) ==
    IF Len(text) < Len(from) THEN text
    ELSE IF SameChar(SubSeq(text, 1, Len(from)), from, ignoreCase)
    THEN IF Len(to) - Len(from) > Max(room, 0) THEN text
         ELSE to \o Replaced(SubSeq(text, Len(from) + 1, Len(text)), from, to,
                             ignoreCase, room - (Len(to) - Len(from)))
    ELSE <<text[1]>> \o Replaced(Tail(text), from, to, ignoreCase, room)

(* every occurrence replaced *)
ReplacedAll(text, from, to, ignoreCase) ==
    Replaced(text, from, to, ignoreCase, Len(text) * Len(to))

(* C22: replace(buffer, from, to) with a result that fits the capacity
   replaces every non-overlapping occurrence of from, taken left to right, by
   to and leaves all other bytes in order; text produced by a replacement is
   never matched again (also when to contains from), and the returned length
   equals the length of the resulting content. *)
C22_ReplaceAll ==
    lastOp.op = "replace"
    => LET all == ReplacedAll(lastOp.pre, lastOp.from, lastOp.to, lastOp.ic)
       IN Len(all) < maxLen
          => /\ Content = all
             /\ curLen = Len(all)
             /\ At(mem, curLen) = NUL
             /\ ~ub

(* replace("aaa", "a", "aa") in a buffer of capacity 7 gives "aaaaaa": the
   replacement contains the pattern and is not matched again *)
C22_Witness ==
    /\ lastOp.op = "replace"
    /\ lastOp.pre = <<97, 97, 97>>
    /\ lastOp.from = <<97>>
    /\ lastOp.to = <<97, 97>>
    /\ maxLen = 7
    /\ Content = <<97, 97, 97, 97, 97, 97>>
    /\ curLen = 6

(* a growing replacement whose full result does not fit the capacity *)
Truncated ==
    /\ lastOp.op = "replace"
    /\ Len(lastOp.to) > Len(lastOp.from)
    /\ Len(ReplacedAll(lastOp.pre, lastOp.from, lastOp.to, lastOp.ic)) >= maxLen

(* C23: when a growing replacement would make the length reach the capacity,
   replace stops at that occurrence, keeps every replacement already made,
   leaves the remaining text (the unreplaced occurrences included) as it was
   and returns a length <= N-1 that equals the length of the final content;
   when the buffer held valid UTF-8 the final sanitize pass changes no byte. *)
C23_ReplaceStops ==
    Truncated
    => LET kept == Replaced(lastOp.pre, lastOp.from, lastOp.to, lastOp.ic,
                            maxLen - 1 - lastOp.preLen)
       IN /\ curLen <= maxLen - 1
          /\ curLen = Len(Content)
          /\ ~ub
          /\ validateUtf8(kept) => Content = kept

(* replace("aaa", "a", "aa") in a buffer of capacity 5: the first occurrence
   is replaced, the second would make the length 5 and stays, with the third *)
C23_Witness ==
    /\ Truncated
    /\ lastOp.pre = <<97, 97, 97>>
    /\ lastOp.from = <<97>>
    /\ lastOp.to = <<97, 97>>
    /\ maxLen = 5
    /\ Content = <<97, 97, 97, 97>>
    /\ curLen = 4

----------------------------------------------------------------------------
(* validateUtf8 on a lead byte followed by up to MaxTrail bytes *)

MaxTrail == 3

LeadBytes == {65, 127, 128, 143, 144, 159, 160, 191, 192, 193, 194, 223, 224,
              225, 236, 237, 238, 239, 240, 241, 243, 244, 245, 247, 248, 255}
TrailBytes == {65, 128, 143, 144, 159, 160, 191, 194}

ValidateText ==
    /\ ~ub
    /\ Query([result |-> validateUtf8(mem), reach |-> ValidateReach(mem, 0)],
             [op |-> "validate", pre |-> Content, preLen |-> curLen])

InitValidate ==
    /\ \E s \in {<<>>} \cup {<<l>> \o t : l \in LeadBytes,
                    t \in UNION {[1..k -> TrailBytes] : k \in 0..MaxTrail}} :
          /\ maxLen = Len(s) + 1
          /\ mem = s \o <<NUL>>
          /\ curLen = Len(s)
    /\ hiWrite = -1
    /\ ub = FALSE
    /\ trace = TRUE
    /\ lastOp = NoOp
    /\ out = <<>>
    /\ NoQueue

NextValidate == lastOp = NoOp /\ ValidateText

SpecValidate == InitValidate /\ [][NextValidate]_vars

(* well-formed UTF-8 by decoding: the lead byte gives the size, the other
   bytes are 10xxxxxx, and the code point is none that a shorter sequence
   encodes, no surrogate and at most U+10FFFF *)
Utf8Size(b) ==
    IF b < 128 THEN 1 ELSE IF b < 192 THEN 0 ELSE IF b < 224 THEN 2
    ELSE IF b < 240 THEN 3 ELSE IF b < 248 THEN 4 ELSE 0

Utf8Payload(b, n) ==
    IF n = 1 THEN b ELSE IF n = 2 THEN b - 192 ELSE IF n = 3 THEN b - 224 ELSE b - 240

Utf8Least(n) == IF n = 1 THEN 0 ELSE IF n = 2 THEN 128 ELSE IF n = 3 THEN 2048 ELSE 65536

RECURSIVE CodePoint(_, _)
CodePoint(acc, s) ==
    IF s = <<>> THEN acc ELSE CodePoint(acc * 64 + (s[1] - 128), Tail(s))

RECURSIVE WellFormed(_)
WellFormed(s) ==
    IF s = <<>> THEN TRUE
    ELSE LET n == Utf8Size(s[1])
         IN /\ n > 0
            /\ Len(s) >= n
            /\ \A k \in 2..n : s[k] \in 128..191
            /\ LET cp == CodePoint(Utf8Payload(s[1], n), SubSeq(s, 2, n))
               IN /\ cp >= Utf8Least(n)
                  /\ cp <= 1114111
                  /\ cp \notin 55296..57343
            /\ WellFormed(SubSeq(s, n + 1, Len(s)))

(* C24: validate accepts exactly the well-formed UTF-8 byte strings (false
   for the lead bytes C0, C1 and F5..FF, a stray continuation byte, a
   sequence cut short by the terminator, overlong E0 80..9F and F0 80..8F,
   surrogates ED A0..BF and F4 90..BF; true for every other 1- to 4-byte
   sequence and the empty string), and it reads no byte after the
   terminator. *)
C24_ValidateExact ==
    lastOp.op = "validate"
    => /\ out.result = WellFormed(lastOp.pre)
       /\ out.reach <= lastOp.preLen

(* ED 9F BF (U+D7FF) is accepted with its last byte read just before the
   terminator *)
C24_Witness ==
    /\ lastOp.op = "validate"
    /\ lastOp.pre = <<237, 159, 191>>
    /\ out.result = TRUE
    /\ out.reach = 3

----------------------------------------------------------------------------
(* findUtf8CharStart on texts that need not be valid UTF-8 *)

MaxOffsetLen == 4       \* bytes of the text
MaxOffsetIdx == 5       \* largest charIdx

(* ASCII, a continuation byte, and the lead bytes of a two- and a three-byte
   sequence *)
OffsetBytes == {97, 169, 195, 226}

LogicalToByteOffset(charIdx) ==
    /\ ~ub
    /\ Query([result |-> findUtf8CharStart(mem, 0, charIdx)],
             [op |-> "offset", idx |-> charIdx, pre |-> Content, preLen |-> curLen])

InitOffset ==
    /\ \E s \in BytesUpTo(OffsetBytes, MaxOffsetLen) :
          /\ maxLen = Len(s) + 1
          /\ mem = s \o <<NUL>>
          /\ curLen = Len(s)
    /\ hiWrite = -1
    /\ ub = FALSE
    /\ trace = TRUE
    /\ lastOp = NoOp
    /\ out = <<>>
    /\ NoQueue

NextOffset ==
    /\ lastOp = NoOp
    /\ \E i \in 0..MaxOffsetIdx : LogicalToByteOffset(i)

SpecOffset == InitOffset /\ [][NextOffset]_vars

(* C25: for every string and every charIndex the offset findUtf8CharStart
   returns is within [0, length], never points at a continuation byte, is
   non-decreasing in charIndex, is the start of the charIndex-th character
   for valid UTF-8 with charIndex < charCount, and is the end-of-string
   offset when charIndex >= charCount. *)
C25_OffsetOfChar ==
    lastOp.op = "offset"
    => /\ out.result \in 0..lastOp.preLen
       /\ ~IsCont(At(mem, out.result))
       /\ \A j \in 0..lastOp.idx : findUtf8CharStart(mem, 0, j) <= out.result
       /\ validateUtf8(mem) /\ lastOp.idx < CharCount(lastOp.pre)
          => out.result = Len(CharRange(lastOp.pre, 0, lastOp.idx))
       /\ lastOp.idx >= utf8_strlen(lastOp.pre) => out.result = lastOp.preLen

(* character 1 of "\xE2\xA9\xA9a" (a three-byte character, then a) starts
   at byte 3 *)
C25_Witness ==
    /\ lastOp.op = "offset"
    /\ lastOp.pre = <<226, 169, 169, 97>>
    /\ lastOp.idx = 1
    /\ out.result = 3

----------------------------------------------------------------------------
(* Integer conversions over the whole range of long and unsigned long.  A
   value is given by its sign and the decimal digits of its magnitude, so
   that the values of a 64-bit long (the build without ARDUINO) can be drawn
   as well as those of a 32-bit long. *)

NumberCap == 40         \* capacity of the buffer: room for every output
MaxWidth == 12          \* largest width

(* the ladder of comparisons uval < 10, uval < 100, ..., uval < 1000000000 *)
digitsCount(ds) == IF Len(ds) <= 9 THEN Len(ds) ELSE 10

(* appendUIntInternal for uval given by its digits ds: the two loops store
   every digit of uval from writeIdx - 1 downwards; lo is the lowest index
   written (below 0: --writeIdx has wrapped) *)
appendULong(buffer, maxL, curL, ds, width, padChar) ==
    LET totalLen == IF digitsCount(ds) > width THEN digitsCount(ds) ELSE width
        writeIdx == curL + totalLen
    IN IF curL + totalLen >= maxL THEN [buffer |-> buffer, curLen |-> curL, hi |-> -1, lo |-> curL]
       ELSE [buffer |-> WriteRightAligned(buffer, curL, writeIdx, ds, padChar),
             curLen |-> writeIdx, hi |-> writeIdx,
             lo |-> Min(curL, writeIdx - Len(ds))]

(* appendInt for val given by its sign and the digits of its magnitude *)
appendLong(buffer, maxL, curL, neg, ds, width, padChar) ==
    IF curL >= maxL - 1 THEN [buffer |-> buffer, curLen |-> curL, hi |-> -1, lo |-> curL]
    ELSE IF neg
         THEN LET r == appendULong(Put(buffer, curL, ChMinus), maxL, curL + 1, ds,
                                   IF width > 0 THEN width - 1 ELSE 0, padChar)
              IN [r EXCEPT !.hi = Max(curL, r.hi), !.lo = Min(curL, r.lo)]
         ELSE appendULong(buffer, maxL, curL, ds, width, padChar)

(* toInt: val * sign is accumulated with the sign, so that the magnitude of
   the smallest int needs no wider integer *)
RECURSIVE ToIntLoop(_, _, _, _)
ToIntLoop(str, i, sign, val) ==
    IF i <= Len(str) /\ isDigit(str[i])
    THEN ToIntLoop(str, i + 1, sign, val * 10 + sign * (str[i] - ChZero))
    ELSE val

RECURSIVE ToIntSkip(_, _)
ToIntSkip(str, i) ==
    IF i <= Len(str) /\ isSpace(str[i]) THEN ToIntSkip(str, i + 1) ELSE i

toInt(str) ==
    LET i == ToIntSkip(str, 1)
    IN IF str = <<>> \/ i > Len(str) THEN 0
       ELSE IF str[i] = ChMinus THEN ToIntLoop(str, i + 1, -1, 0)
       ELSE IF str[i] = 43 THEN ToIntLoop(str, i + 1, 1, 0)
       ELSE ToIntLoop(str, i, 1, 0)

(* magnitudes: 0, 7, 42, 2^31 - 1, 2^31, 2^32 - 1, 10^10, 2^63 - 1, 2^63 and
   2^64 - 1; int is the value where an int holds it *)
Magnitudes ==
    {<<0>>, <<7>>, <<4, 2>>,
     <<2, 1, 4, 7, 4, 8, 3, 6, 4, 7>>,
     <<2, 1, 4, 7, 4, 8, 3, 6, 4, 8>>,
     <<4, 2, 9, 4, 9, 6, 7, 2, 9, 5>>,
     <<1, 0, 0, 0, 0, 0, 0, 0, 0, 0, 0>>,
     <<9, 2, 2, 3, 3, 7, 2, 0, 3, 6, 8, 5, 4, 7, 7, 5, 8, 0, 7>>,
     <<9, 2, 2, 3, 3, 7, 2, 0, 3, 6, 8, 5, 4, 7, 7, 5, 8, 0, 8>>,
     <<1, 8, 4, 4, 6, 7, 4, 4, 0, 7, 3, 7, 0, 9, 5, 5, 1, 6, 1, 5>>}

IntMax == <<2, 1, 4, 7, 4, 8, 3, 6, 4, 7>>
IntMinMagnitude == <<2, 1, 4, 7, 4, 8, 3, 6, 4, 8>>
LongMax == <<9, 2, 2, 3, 3, 7, 2, 0, 3, 6, 8, 5, 4, 7, 7, 5, 8, 0, 7>>
LongMinMagnitude == <<9, 2, 2, 3, 3, 7, 2, 0, 3, 6, 8, 5, 4, 7, 7, 5, 8, 0, 8>>

(* the values of a long: every magnitude up to 2^63 - 1 with either sign,
   and -2^63 *)
LongValues ==
    {[neg |-> n, digits |-> m] :
        n \in BOOLEAN, m \in {d \in Magnitudes : Len(d) < 19} \cup {LongMax}}
    \cup {[neg |-> TRUE, digits |-> LongMinMagnitude]}

Widths == {0, 3, MaxWidth}
PadChars == {ChSpace, ChZero}
HexValues == {0, 10, 255, 65536, 2147483647}

DigitChars(ds) == [k \in 1..Len(ds) |-> ChZero + ds[k]]

AppendLong(v, width, padChar) ==
    /\ ~ub
    /\ LET r == appendLong(mem, maxLen, curLen, v.neg, DigitChars(v.digits), width, padChar)
       IN Mutate(r, r.lo < 0,
                 [op |-> "appendInt", neg |-> v.neg, digits |-> v.digits, width |-> width,
                  pad |-> padChar, lo |-> r.lo, pre |-> Content, preLen |-> curLen])

AppendULong(ds, width, padChar) ==
    /\ ~ub
    /\ LET r == appendULong(mem, maxLen, curLen, DigitChars(ds), width, padChar)
       IN Mutate(r, r.lo < 0,
                 [op |-> "appendUInt", neg |-> FALSE, digits |-> ds, width |-> width,
                  pad |-> padChar, lo |-> r.lo, pre |-> Content, preLen |-> curLen])

AppendHex(uval, width, padChar, uppercase) ==
    /\ ~ub
    /\ LET r == appendHexInternal(mem, maxLen, curLen, uval, width, padChar, uppercase)
       IN Mutate(r, FALSE,
                 [op |-> "appendHex", val |-> uval, width |-> width, pad |-> padChar,
                  lo |-> Min(curLen, r.curLen - Len(HexDigits(uval, uppercase))),
                  pre |-> Content,
                  preLen |-> curLen])

InitNumber ==
    /\ maxLen = NumberCap
    /\ \E s \in {<<>>, <<97, 98>>} :
          /\ mem = s \o Zeros(NumberCap - Len(s))
          /\ curLen = Len(s)
    /\ hiWrite = -1
    /\ ub = FALSE
    /\ trace = TRUE
    /\ lastOp = NoOp
    /\ out = <<>>
    /\ NoQueue

NextNumber ==
    /\ lastOp = NoOp
    /\ \/ \E v \in LongValues, w \in Widths, c \in PadChars : AppendLong(v, w, c)
       \/ \E ds \in Magnitudes, w \in Widths, c \in PadChars : AppendULong(ds, w, c)
       \/ \E v \in HexValues, w \in Widths, c \in PadChars, u \in BOOLEAN :
              AppendHex(v, w, c, u)

SpecNumber == InitNumber /\ [][NextNumber]_vars

(* the recorded value lies in the range of a 32-bit int *)
InIntRange ==
    \/ Len(lastOp.digits) < 10
    \/ lastOp.digits = IntMax
    \/ lastOp.neg /\ lastOp.digits = IntMinMagnitude

RECURSIVE ValueOf(_, _, _)
ValueOf(ds, sign, acc) ==
    IF ds = <<>> THEN acc ELSE ValueOf(Tail(ds), sign, acc * 10 + sign * ds[1])

(* sign, padding and digits of the recorded call: the sign takes one of the
   width columns *)
ExpectedNumber ==
    LET ds == DigitChars(lastOp.digits)
        cols == IF lastOp.neg /\ lastOp.width > 0 THEN lastOp.width - 1 ELSE lastOp.width
    IN (IF lastOp.neg THEN <<ChMinus>> ELSE <<>>)
       \o [k \in 1..Max(cols - Len(ds), 0) |-> lastOp.pad] \o ds

Appended == SubSeq(Content, lastOp.preLen + 1, Len(Content))

(* C26: appendInt on a buffer with enough free space appends, for every
   signed long value including the minimum representable one, the sign '-'
   first (for negatives) followed by the exact decimal digits of the
   magnitude left-padded to the requested width (the sign counting as one
   column), so that toInt of the appended text returns the original value
   for every value in int range. *)
C26_AppendIntExact ==
    lastOp.op = "appendInt"
    => /\ ~ub
       /\ Content = lastOp.pre \o ExpectedNumber
       /\ curLen = Len(Content)
       /\ InIntRange
          => toInt(Appended) = ValueOf(lastOp.digits, IF lastOp.neg THEN -1 ELSE 1, 0)

(* C29: the integer and hex conversions write only at indices >= the
   starting length, for every unsigned long value (also values of more than
   10 decimal digits on a 64-bit long), every width and every starting
   length: the bytes that were in the buffer before the call are unchanged
   and no index below 0 is written. *)
C29_NoWriteBelowStart ==
    lastOp.op \in {"appendUInt", "appendHex"}
    => /\ lastOp.lo >= lastOp.preLen
       /\ lastOp.lo >= 0
       /\ SubSeq(mem, 1, lastOp.preLen) = lastOp.pre
       /\ ~ub

----------------------------------------------------------------------------
(* trim on texts of spaces, tabs and other bytes; a second trim follows when
   the first one changed the text *)

MaxTrimLen == 5

TrimBytes == {ChSpace, 9, 97, 195}

InitTrim ==
    /\ \E s \in BytesUpTo(TrimBytes, MaxTrimLen) :
          /\ maxLen = Len(s) + 1
          /\ mem = s \o <<NUL>>
          /\ curLen = Len(s)
    /\ hiWrite = -1
    /\ ub = FALSE
    /\ trace = TRUE
    /\ lastOp = NoOp
    /\ out = <<>>
    /\ NoQueue

NextTrim == (IF lastOp = NoOp THEN TRUE ELSE lastOp.pre # Content) /\ Trim

SpecTrim == InitTrim /\ [][NextTrim]_vars

(* the bytes from the first to the last byte that is not whitespace *)
Trimmed(s) ==
    LET keep == {k \in 1..Len(s) : ~isSpace(s[k])}
    IN IF keep = {} THEN <<>>
       ELSE SubSeq(s, CHOOSE k \in keep : \A j \in keep : k <= j,
                      CHOOSE k \in keep : \A j \in keep : j <= k)

(* C27: trim removes exactly the leading and trailing whitespace bytes: the
   result has no such byte at either end, the bytes between the first and
   the last non-whitespace byte are unchanged and in order, the returned
   length is the length of the result, an all-whitespace string becomes
   empty, and trimming again changes nothing. *)
C27_TrimExact ==
    lastOp.op = "trim"
    => /\ Content = Trimmed(lastOp.pre)
       /\ curLen = Len(Content)
       /\ Content # <<>> => ~isSpace(Content[1]) /\ ~isSpace(Content[Len(Content)])
       /\ (\A k \in 1..Len(lastOp.pre) : isSpace(lastOp.pre[k])) => Content = <<>>
       /\ CStr(trim(mem).buffer, 0) = Content
       /\ trim(mem).curLen = curLen
       /\ ~ub

(* trim(" a\ta \t") is "a\ta": the inner tab stays *)
C27_Witness ==
    /\ lastOp.op = "trim"
    /\ lastOp.pre = <<ChSpace, 97, 9, 97, ChSpace>>
    /\ Content = <<97, 9, 97>>
    /\ curLen = 3

----------------------------------------------------------------------------
(* equals, compare and compareIgnoreCase on (pointer, length) operands: an
   operand is a view [null, addr, len] of the memory, the bytes at the C
   indices addr .. addr + len - 1, or a null pointer *)

MaxCmpLen == 3          \* bytes of the memory the views lie in

CmpBytes == {97, 65, 98}

(* s1 == s2 on pointers *)
SamePtr(s1, s2) == (s1.null /\ s2.null) \/ (~s1.null /\ ~s2.null /\ s1.addr = s2.addr)

(* memcmp(m + p1, m + p2, n): the difference of the first bytes that differ *)
memcmp(m, p1, p2, n) ==
    LET diff == {i \in 0..(n - 1) : At(m, p1 + i) # At(m, p2 + i)}
    IN IF diff = {} THEN 0
       ELSE LET i == CHOOSE d \in diff : \A e \in diff : d <= e
            IN At(m, p1 + i) - At(m, p2 + i)

equals(m, s1, s2, ignoreCase) ==
    IF s1.len # s2.len THEN FALSE
    ELSE IF SamePtr(s1, s2) THEN TRUE
    ELSE IF s1.null \/ s2.null THEN FALSE
    ELSE IF ~ignoreCase THEN memcmp(m, s1.addr, s2.addr, s1.len) = 0
    ELSE \A i \in 0..(s1.len - 1) :
            toLower(At(m, s1.addr + i)) = toLower(At(m, s2.addr + i))

compare(m, s1, s2) ==
    IF SamePtr(s1, s2) THEN 0
    ELSE IF s1.null THEN -1
    ELSE IF s2.null THEN 1
    ELSE LET res == memcmp(m, s1.addr, s2.addr, Min(s1.len, s2.len))
         IN IF res # 0 THEN res
            ELSE IF s1.len < s2.len THEN -1
            ELSE IF s1.len > s2.len THEN 1
            ELSE 0

compareIgnoreCase(m, s1, s2) ==
    IF SamePtr(s1, s2) THEN 0
    ELSE IF s1.null THEN -1
    ELSE IF s2.null THEN 1
    ELSE LET diff == {i \in 0..(Min(s1.len, s2.len) - 1) :
                         toLower(At(m, s1.addr + i)) # toLower(At(m, s2.addr + i))}
         IN IF diff # {}
            THEN LET i == CHOOSE d \in diff : \A e \in diff : d <= e
                 IN toLower(At(m, s1.addr + i)) - toLower(At(m, s2.addr + i))
            ELSE IF s1.len < s2.len THEN -1
            ELSE IF s1.len > s2.len THEN 1
            ELSE 0

(* the views of the text in the buffer, and the null pointer *)
Views ==
    {[null |-> FALSE, addr |-> a, len |-> l] : a \in 0..curLen, l \in 0..curLen}
    \cup {[null |-> TRUE, addr |-> 0, len |-> 0]}

InMemory(v) == v.null \/ v.addr + v.len <= curLen

Equals(a, b, ignoreCase) ==
    /\ ~ub
    /\ Query([result |-> equals(mem, a, b, ignoreCase)],
             [op |-> "equals", a |-> a, b |-> b, ic |-> ignoreCase])

Compare(a, b) ==
    /\ ~ub
    /\ Query([result |-> compare(mem, a, b)],
             [op |-> "compare", a |-> a, b |-> b, ic |-> FALSE])

CompareIgnoreCase(a, b) ==
    /\ ~ub
    /\ Query([result |-> compareIgnoreCase(mem, a, b)],
             [op |-> "compareIgnoreCase", a |-> a, b |-> b, ic |-> TRUE])

InitCompare ==
    /\ \E s \in [1..MaxCmpLen -> CmpBytes] :
          /\ maxLen = Len(s) + 1
          /\ mem = s \o <<NUL>>
          /\ curLen = Len(s)
    /\ hiWrite = -1
    /\ ub = FALSE
    /\ trace = TRUE
    /\ lastOp = NoOp
    /\ out = <<>>
    /\ NoQueue

NextCompare ==
    /\ lastOp = NoOp
    /\ \/ \E a \in Views, b \in Views, ic \in BOOLEAN :
              InMemory(a) /\ InMemory(b) /\ Equals(a, b, ic)
       \/ \E a \in Views, b \in Views :
              InMemory(a) /\ InMemory(b) /\ Compare(a, b)
       \/ \E a \in Views, b \in Views :
              InMemory(a) /\ InMemory(b) /\ CompareIgnoreCase(a, b)

SpecCompare == InitCompare /\ [][NextCompare]_vars

Sign(x) == IF x < 0 THEN -1 ELSE IF x > 0 THEN 1 ELSE 0

(* C28: for all (pointer, length) operands, two views that start at the same
   address with different lengths included, compare(a, b) is 0 exactly when
   equals(a, b, false) is true, compareIgnoreCase(a, b) is 0 exactly when
   equals(a, b, true) is true, and compare(a, b) and compare(b, a) have
   opposite signs. *)
C28_CompareAgreesWithEquals ==
    /\ lastOp.op = "compare"
       => /\ (out.result = 0) <=> equals(mem, lastOp.a, lastOp.b, FALSE)
          /\ Sign(compare(mem, lastOp.b, lastOp.a)) = 0 - Sign(out.result)
    /\ lastOp.op = "compareIgnoreCase"
       => ((out.result = 0) <=> equals(mem, lastOp.a, lastOp.b, TRUE))
    /\ lastOp.op = "equals"
       => (out.result <=> (IF lastOp.ic THEN compareIgnoreCase(mem, lastOp.a, lastOp.b)
                                       ELSE compare(mem, lastOp.a, lastOp.b)) = 0)

----------------------------------------------------------------------------
(* The format interpreter on an empty buffer that is large enough for every
   output: formats over the marker, 'l', 'd' and the unsupported 'z' *)

MaxFormatLen == 4     \* bytes of the format string
PrintfRoom == 12      \* capacity of the buffer

FormatBytes == {ChPercent, 108, 100, 122}

FormatArgs == <<7, 8, 9, 6>>

InitPrintf ==
    /\ maxLen = PrintfRoom
    /\ mem = Zeros(PrintfRoom)
    /\ curLen = 0
    /\ hiWrite = -1
    /\ ub = FALSE
    /\ trace = TRUE
    /\ lastOp = NoOp
    /\ out = <<>>
    /\ NoQueue

NextPrintf ==
    /\ lastOp = NoOp
    /\ \E f \in BytesUpTo(FormatBytes, MaxFormatLen) : AppendPrintf(f, FormatArgs)

SpecPrintf == InitPrintf /\ [][NextPrintf]_vars

(* the output the claim describes, for formats whose supported directives are
   %d, %ld and %%: p is the C index of the next format byte, ai the index of
   the next argument *)
RECURSIVE ExpectedOutput(_, _, _, _)
ExpectedOutput(format, p, args, ai) ==
    LET c == At(format, p)
        t == At(format, p + 1)
        t1 == At(format, p + 2)
    IN IF c = NUL THEN <<>>
       ELSE IF c # ChPercent THEN <<c>> \o ExpectedOutput(format, p + 1, args, ai)
       ELSE IF t = NUL THEN <<>>
       ELSE IF t = 100
       THEN DecDigits(args[ai + 1]) \o ExpectedOutput(format, p + 2, args, ai + 1)
       ELSE IF t = 108 /\ t1 = 100
       THEN DecDigits(args[ai + 1]) \o ExpectedOutput(format, p + 3, args, ai + 1)
       ELSE IF t = ChPercent
       THEN <<ChPercent>> \o ExpectedOutput(format, p + 2, args, ai)
       ELSE <<ChPercent, t>> \o ExpectedOutput(format, p + 2, args, ai)

(* C12: a directive whose type character is not supported (this includes 'l'
   followed by a character other than d, u, x, X) is emitted as the marker
   '%' followed by that character, consumes no argument, and interpretation
   continues with the next character. *)
C12_UnsupportedIsLiteral ==
    lastOp.op = "appendPrintf"
    => Content = ExpectedOutput(lastOp.format, 0, lastOp.args, 0)

(* formats that end in a lone marker or inside a directive: the marker, a
   width digit, the zero flag, the precision dot, 'd' and plain text *)
EdgeBytes == {ChPercent, 53, ChZero, ChDot, 100, 97}

NextFormat ==
    /\ lastOp = NoOp
    /\ \E f \in BytesUpTo(EdgeBytes, MaxFormatLen) : AppendPrintf(f, FormatArgs)

SpecFormat == InitPrintf /\ [][NextFormat]_vars

(* C30: for every format, also one that ends in a lone '%' or in an
   incomplete directive such as "%5", "%0" or "%.", appendPrintf ends with
   its cursor not advanced past the format's terminator, reads no byte after
   it, and appends no NUL byte into the content: the returned length is the
   length of the resulting C string. *)
C30_StaysInsideFormat ==
    lastOp.op = "appendPrintf"
    => /\ lastOp.p <= Len(lastOp.format)
       /\ ~ub
       /\ curLen = Len(Content)

----------------------------------------------------------------------------
(* isHex and hexToInt on short texts and on long runs of digits *)

MaxHexLen == 4        \* bytes of a short text
MaxHexRun == 9        \* digits of a long run

HexBytes == {ChSpace, ChZero, 49, 70, 71, 88, 120}

HexTexts ==
    BytesUpTo(HexBytes, MaxHexLen) \cup {NullPtr}
    \cup {[k \in 1..n |-> d] : n \in 5..MaxHexRun, d \in {49, 70}}

IsHex(str) == Query([result |-> isHex(str)], [op |-> "isHex", str |-> str])

HexToInt(str) == Query([result |-> hexToInt(str)], [op |-> "hexToInt", str |-> str])

InitHex ==
    /\ maxLen = 1
    /\ mem = Zeros(1)
    /\ curLen = 0
    /\ hiWrite = -1
    /\ ub = FALSE
    /\ trace = TRUE
    /\ lastOp = NoOp
    /\ out = <<>>
    /\ NoQueue

NextHex ==
    /\ lastOp = NoOp
    /\ \/ \E s \in HexTexts : IsHex(s)
       \/ \E s \in HexTexts : HexToInt(s)

SpecHex == InitHex /\ [][NextHex]_vars

AllIn(s, from, to, P(_)) == \A k \in (from + 1)..to : P(s[k])

(* the decompositions <<a, b, c>> of s into whitespace s[1..a], an optional
   0x or 0X prefix s[a+1..b], one or more hex digits s[b+1..c] and whitespace
   s[c+1..Len(s)] *)
HexForms(s) ==
    {f \in (0..Len(s)) \X (0..Len(s)) \X (0..Len(s)) :
        /\ f[1] <= f[2] /\ f[2] < f[3]
        /\ AllIn(s, 0, f[1], isSpace)
        /\ \/ f[2] = f[1]
           \/ f[2] = f[1] + 2 /\ s[f[1] + 1] = ChZero /\ s[f[1] + 2] \in {120, 88}
        /\ AllIn(s, f[2], f[3], isHexDigit)
        /\ AllIn(s, f[3], Len(s), isSpace)}

HexDigitValue(c) ==
    IF c <= 57 THEN c - 48 ELSE IF c <= 70 THEN c - 65 + 10 ELSE c - 97 + 10

RECURSIVE HexValue(_)
HexValue(ds) ==
    IF ds = <<>> THEN 0
    ELSE 16 * HexValue(SubSeq(ds, 1, Len(ds) - 1)) + HexDigitValue(ds[Len(ds)])

(* C18: isHex accepts exactly the strings of the form optional whitespace,
   optional 0x/0X prefix, one or more hex digits, optional whitespace, and
   for every accepted string of at most 7 hex digits hexToInt returns the
   value of those digits. *)
C18_HexFormAndValue ==
    /\ lastOp.op = "isHex" /\ lastOp.str # NullPtr
       => (out.result <=> HexForms(lastOp.str) # {})
    /\ lastOp.op = "isHex" /\ lastOp.str = NullPtr => out.result = FALSE
    /\ lastOp.op = "hexToInt" /\ lastOp.str # NullPtr
       => \A f \in HexForms(lastOp.str) :
             f[3] - f[2] <= 7
             => out.result = HexValue(SubSeq(lastOp.str, f[2] + 1, f[3]))

(* hexToInt("0x1F") returned 31 *)
C18_Witness ==
    /\ lastOp.op = "hexToInt"
    /\ lastOp.str = <<ChZero, 120, 49, 70>>
    /\ out.result = 31

----------------------------------------------------------------------------
(* appendFloat on an empty buffer with room for every output *)

MaxMilli == 2005      \* largest magnitude of the dense range, in 1/1000
FloatRoom == 16       \* capacity of the buffer

(* every value of the dense range, and values whose rounding carries into a
   second integer digit *)
FloatInputs == ((0 - MaxMilli)..MaxMilli) \cup {9994, 9995, 9999, -9995}

InitFloat ==
    /\ maxLen = FloatRoom
    /\ mem = Zeros(FloatRoom)
    /\ curLen = 0
    /\ hiWrite = -1
    /\ ub = FALSE
    /\ trace = TRUE
    /\ lastOp = NoOp
    /\ out = <<>>
    /\ NoQueue

NextFloat ==
    /\ lastOp = NoOp
    /\ \E milli \in FloatInputs, dp \in -1..10 : AppendFloat(milli, dp)

SpecFloat == InitFloat /\ [][NextFloat]_vars

(* ds padded on the left with '0' to n digits *)
ZeroPad(ds, n) == [k \in 1..(n - Len(ds)) |-> ChZero] \o ds

(* the decimal text of mag/1000 rounded half-up to p places: floor(x * 10^p
   + 1/2) for p <= 3, and the three decimals followed by zeros for p > 3 *)
HalfUpText(mag, p) ==
    IF p <= 3
    THEN LET q == (2 * mag * Pow10(p) + 1000) \div 2000
         IN DecDigits(q \div Pow10(p))
            \o (IF p = 0 THEN <<>> ELSE <<ChDot>> \o ZeroPad(DecDigits(q % Pow10(p)), p))
    ELSE DecDigits(mag \div 1000) \o <<ChDot>> \o ZeroPad(DecDigits(mag % 1000), 3)
         \o [k \in 1..(p - 3) |-> ChZero]

(* C19: appendFloat rounds the magnitude half-up at the requested precision
   (2.005 with 2 places gives "2.01"), and for every value and every p in
   0..9 the fraction is printed as exactly p decimal digits, also when it
   rounds up to 10^p: the carry goes to the integer part. *)
C19_HalfUp ==
    lastOp.op = "appendFloat" /\ lastOp.places \in 0..9
    => LET mag == IF lastOp.val < 0 THEN 0 - lastOp.val ELSE lastOp.val
           text == HalfUpText(mag, lastOp.places)
       IN /\ Content = (IF lastOp.val < 0 THEN <<ChMinus>> ELSE <<>>) \o text
          /\ lastOp.val = 2005 /\ lastOp.places = 2 => Content = <<50, ChDot, ChZero, 49>>
          /\ lastOp.places > 0
             => /\ Content[Len(Content) - lastOp.places] = ChDot
                /\ \A k \in (Len(Content) - lastOp.places + 1)..Len(Content) :
                       Content[k] \in ChZero..(ChZero + 9)

(* 1.999 with 2 places was printed as "2.00": the fraction rounded up to
   10^2 *)
C19_Witness ==
    /\ lastOp.op = "appendFloat"
    /\ lastOp.val = 1999
    /\ lastOp.places = 2
    /\ Content = <<50, ChDot, ChZero, ChZero>>

----------------------------------------------------------------------------
(* Queue<T, N>: a ring of N slots.  A queue is the record of its members;
   slot i of _data is element i + 1 of data, and N is the length of data. *)

NoItem == 0      \* a default-constructed T, and an outItem that was not assigned

NewQueue(N) == [data |-> [k \in 1..N |-> NoItem], head |-> 0, tail |-> 0, count |-> 0]

isEmpty(q) == q.count = 0

isFull(q) == q.count = Len(q.data)

size(q) == q.count

(* the statements of enqueue, in order *)
enqueueEvict(q) ==
    IF isFull(q)
    THEN [q EXCEPT !.head = (q.head + 1) % Len(q.data), !.count = SizeT(q.count - 1)]
    ELSE q

enqueueStore(q, item) == [q EXCEPT !.data[q.tail + 1] = item]

enqueueAdvance(q) == [q EXCEPT !.tail = (q.tail + 1) % Len(q.data)]

enqueueCount(q) == [q EXCEPT !.count = SizeT(q.count + 1)]

(* enqueue that does not make room in a full queue *)
enqueue_noEvict(q, item) == enqueueCount(enqueueAdvance(enqueueStore(q, item)))

enqueue(q, item) == enqueueCount(enqueueAdvance(enqueueStore(enqueueEvict(q), item)))

(* the statements of pop behind the test for the empty queue *)
popAdvance(q) == [q EXCEPT !.head = (q.head + 1) % Len(q.data)]

popCount(q) == [q EXCEPT !.count = SizeT(q.count - 1)]

(* pop that takes the newest item *)
pop_newest(q) ==
    IF isEmpty(q) THEN [queue |-> q, ret |-> FALSE, item |-> NoItem]
    ELSE LET last == (q.tail + Len(q.data) - 1) % Len(q.data)
         IN [queue |-> popCount([q EXCEPT !.tail = last]), ret |-> TRUE,
             item |-> q.data[last + 1]]

pop(q) ==
    IF isEmpty(q) THEN [queue |-> q, ret |-> FALSE, item |-> NoItem]
    ELSE [queue |-> popCount(popAdvance(q)), ret |-> TRUE, item |-> q.data[q.head + 1]]

getAt(q, index) ==
    IF index >= q.count THEN [ret |-> FALSE, item |-> NoItem]
    ELSE [ret |-> TRUE, item |-> q.data[((q.head + index) % Len(q.data)) + 1]]

----------------------------------------------------------------------------
(* One Queue and the calls of one caller *)

QueueCap == 3        \* largest capacity N
MaxCalls == 6        \* calls in one behaviour

QueueItems == {1, 2}

Called(name, result) ==
    /\ hist.calls < MaxCalls
    /\ lastOp' = name @@ [pre |-> queue, preItems |-> hist.items]
    /\ out' = result
    /\ UNCHANGED <<svars, tsq, logger>>

Enqueue(item) ==
    /\ Called([op |-> "enqueue", item |-> item], <<>>)
    /\ queue' = enqueue(queue, item)
    /\ hist' = [items |-> Append(hist.items, item), calls |-> hist.calls + 1]

Pop ==
    LET r == pop(queue)
    IN /\ Called([op |-> "pop"], [ret |-> r.ret, item |-> r.item])
       /\ queue' = r.queue
       /\ hist' = [hist EXCEPT !.calls = @ + 1]

GetAt(index) ==
    /\ Called([op |-> "getAt", index |-> index], getAt(queue, index))
    /\ queue' = queue
    /\ hist' = [hist EXCEPT !.calls = @ + 1]

Size ==
    /\ Called([op |-> "size"], [ret |-> size(queue)])
    /\ queue' = queue
    /\ hist' = [hist EXCEPT !.calls = @ + 1]

InitQueue ==
    /\ NoString
    /\ lastOp = NoOp
    /\ out = <<>>
    /\ \E N \in 1..QueueCap : queue = NewQueue(N)
    /\ hist = [items |-> <<>>, calls |-> 0]
    /\ tsq = <<>>
    /\ logger = <<>>

NextQueue ==
    \/ \E item \in QueueItems : Enqueue(item)
    \/ Pop
    \/ \E index \in 0..QueueCap : GetAt(index)
    \/ Size

SpecQueue == InitQueue /\ [][NextQueue]_vars

(* the stored items from the oldest to the newest *)
Stored(q) == [k \in 1..q.count |-> q.data[((q.head + k - 1) % Len(q.data)) + 1]]

(* the last n elements of s *)
LastOf(s, n) == SubSeq(s, Len(s) - n + 1, Len(s))

(* C13: after any sequence of enqueue and pop on a Queue of capacity N,
   size() is between 0 and N, tail = (head + count) mod N, the queue holds
   the most recently enqueued items in insertion order (all N of them when it
   is full: an enqueue on a full queue discards exactly the oldest), pop
   returns the oldest stored item, and pop on an empty queue returns false
   and changes nothing. *)
C13_RingQueue ==
    LET N == Len(queue.data)
    IN /\ size(queue) \in 0..N
       /\ queue.tail = (queue.head + queue.count) % N
       /\ Stored(queue) = LastOf(hist.items, queue.count)
       /\ lastOp.op = "enqueue" /\ lastOp.pre.count = N
          => Stored(queue) = Tail(Stored(lastOp.pre)) \o <<lastOp.item>>
       /\ lastOp.op = "enqueue" /\ lastOp.pre.count < N
          => Stored(queue) = Stored(lastOp.pre) \o <<lastOp.item>>
       /\ lastOp.op = "pop" /\ lastOp.pre.count > 0
          => /\ out.ret
             /\ out.item = Head(Stored(lastOp.pre))
             /\ Stored(queue) = Tail(Stored(lastOp.pre))
       /\ lastOp.op = "pop" /\ lastOp.pre.count = 0
          => ~out.ret /\ queue = lastOp.pre

(* a full queue of capacity 3 took a fourth item and gave up its oldest *)
C13_Witness ==
    /\ lastOp.op = "enqueue"
    /\ Len(queue.data) = 3
    /\ lastOp.pre.count = 3
    /\ hist.items = <<1, 2, 1, 2>>
    /\ Stored(queue) = <<2, 1, 2>>

----------------------------------------------------------------------------
(* ThreadSafeQueue<T, N>: every call is lock(); the Queue call; unlock().
   tsq.hasMutex tells whether the mutex exists (std::mutex always does, a
   FreeRTOS handle is null when xSemaphoreCreateMutex() failed, and lock()
   and unlock() then do nothing); tsq.owner is the thread that holds it, 0 if
   none.  A thread goes from "idle" to "lock", through the statements of the
   Queue call, to "unlock" and back to "idle". *)

TsCap == 2           \* capacity N of the queue
MaxTsCalls == 3      \* calls in one behaviour

Threads == {1, 2}

TsCalls == {<<"enqueue", 0>>, <<"pop", 0>>, <<"getAt", 0>>, <<"getAt", 1>>, <<"size", 0>>}

IdleThread == [pc |-> "idle", op |-> "none", arg |-> 0, ret |-> FALSE, item |-> NoItem,
               want |-> <<>>]

(* the call made on the queue q by one caller *)
Sequential(q, op, arg) ==
    CASE op = "enqueue" -> [queue |-> enqueue(q, arg), ret |-> FALSE, item |-> NoItem]
      [] op = "pop" -> pop(q)
      [] op = "getAt" -> getAt(q, arg) @@ [queue |-> q]
      [] op = "size" -> [queue |-> q, ret |-> size(q), item |-> NoItem]

(* xSemaphoreTake that never waits *)
mutexFree_always(ts) == TRUE

(* lock() returns at once without a mutex, and when no thread holds it *)
mutexFree(ts) == ~ts.hasMutex \/ ts.owner = 0

Thread(t, new) == tsq' = [tsq EXCEPT !.th[t] = new]

TsCall(t, op, arg) ==
    /\ tsq.th[t].pc = "idle"
    /\ hist.calls < MaxTsCalls
    /\ Thread(t, [IdleThread EXCEPT !.pc = "lock", !.op = op,
                    !.arg = IF op = "enqueue" THEN hist.calls + 1 ELSE arg])
    /\ hist' = [hist EXCEPT !.calls = @ + 1]
    /\ UNCHANGED <<svars, lastOp, out, queue, logger>>

TsLock(t) ==
    LET me == tsq.th[t]
    IN /\ me.pc = "lock"
       /\ mutexFree(tsq)
       /\ tsq' = [tsq EXCEPT !.owner = IF tsq.hasMutex THEN t ELSE @,
                             !.th[t] = [me EXCEPT !.pc = me.op,
                                                  !.want = Sequential(queue, me.op, me.arg)]]
       /\ hist' = IF me.op = "enqueue"
                  THEN [hist EXCEPT !.items = Append(@, me.arg)] ELSE hist
       /\ UNCHANGED <<svars, lastOp, out, queue, logger>>

(* the statements of Queue::enqueue, one at a time *)
TsEnqueueStep(t) ==
    LET me == tsq.th[t]
    IN /\ me.pc \in {"enqueue", "store", "advance", "count"}
       /\ queue' = CASE me.pc = "enqueue" -> enqueueEvict(queue)
                     [] me.pc = "store" -> enqueueStore(queue, me.arg)
                     [] me.pc = "advance" -> enqueueAdvance(queue)
                     [] me.pc = "count" -> enqueueCount(queue)
       /\ Thread(t, [me EXCEPT !.pc = CASE me.pc = "enqueue" -> "store"
                                          [] me.pc = "store" -> "advance"
                                          [] me.pc = "advance" -> "count"
                                          [] me.pc = "count" -> "unlock"])
       /\ UNCHANGED <<svars, lastOp, out, hist, logger>>

(* the statements of Queue::pop *)
TsPopStep(t) ==
    LET me == tsq.th[t]
    IN /\ me.pc \in {"pop", "take", "popAdvance", "popCount"}
       /\ queue' = CASE me.pc = "popAdvance" -> popAdvance(queue)
                     [] me.pc = "popCount" -> popCount(queue)
                     [] OTHER -> queue
       /\ Thread(t, CASE me.pc = "pop" ->
                           [me EXCEPT !.pc = IF isEmpty(queue) THEN "unlock" ELSE "take"]
                      [] me.pc = "take" ->
                           [me EXCEPT !.pc = "popAdvance", !.item = queue.data[queue.head + 1]]
                      [] me.pc = "popAdvance" -> [me EXCEPT !.pc = "popCount"]
                      [] me.pc = "popCount" -> [me EXCEPT !.pc = "unlock", !.ret = TRUE])
       /\ UNCHANGED <<svars, lastOp, out, hist, logger>>

(* Queue::getAt and Queue::size *)
TsReadStep(t) ==
    LET me == tsq.th[t]
        r == getAt(queue, me.arg)
    IN /\ me.pc \in {"getAt", "size"}
       /\ Thread(t, IF me.pc = "getAt"
                    THEN [me EXCEPT !.pc = "unlock", !.ret = r.ret, !.item = r.item]
                    ELSE [me EXCEPT !.pc = "unlock", !.ret = size(queue)])
       /\ UNCHANGED <<svars, lastOp, out, queue, hist, logger>>

TsUnlock(t) ==
    LET me == tsq.th[t]
    IN /\ me.pc = "unlock"
       /\ tsq' = [tsq EXCEPT !.owner = IF tsq.hasMutex THEN 0 ELSE @,
                             !.th[t] = [me EXCEPT !.pc = "idle"]]
       /\ hist' = IF me.op = "pop" /\ me.ret = TRUE
                  THEN [hist EXCEPT !.popped = Append(@, me.item)] ELSE hist
       /\ UNCHANGED <<svars, lastOp, out, queue, logger>>

InitThreads ==
    /\ NoString
    /\ lastOp = NoOp
    /\ out = <<>>
    /\ queue = NewQueue(TsCap)
    /\ hist = [items |-> <<>>, calls |-> 0, popped |-> <<>>]
    /\ \E m \in BOOLEAN :
          tsq = [hasMutex |-> m, owner |-> 0, th |-> [t \in Threads |-> IdleThread]]
    /\ logger = <<>>

NextThreads ==
    \E t \in Threads :
        \/ \E c \in TsCalls : TsCall(t, c[1], c[2])
        \/ TsLock(t)
        \/ TsEnqueueStep(t)
        \/ TsPopStep(t)
        \/ TsReadStep(t)
        \/ TsUnlock(t)

SpecThreads == InitThreads /\ [][NextThreads]_vars

(* thread t is between its lock() and its unlock() *)
InCall(t) == tsq.th[t].pc \notin {"idle", "lock"}

(* every thread in a call holds the lock *)
InsideLock == \A t \in Threads : InCall(t) => tsq.owner = t

(* a call that has reached its unlock() left the queue, and returns, what the
   same call by a single caller would have, made when the lock was taken *)
AsSequential ==
    \A t \in Threads :
        tsq.th[t].pc = "unlock"
        => /\ queue = tsq.th[t].want.queue
           /\ tsq.th[t].ret = tsq.th[t].want.ret
           /\ tsq.th[t].item = tsq.th[t].want.item

(* no item was popped twice, a popped item is no longer stored, and when no
   call is under way the lock is free and the queue holds the most recently
   enqueued items *)
NothingLost ==
    /\ \A i, j \in 1..Len(hist.popped) : i # j => hist.popped[i] # hist.popped[j]
    /\ (\A t \in Threads : tsq.th[t].pc = "idle")
       => /\ tsq.owner = 0
          /\ Stored(queue) = LastOf(hist.items, queue.count)
          /\ \A i \in 1..Len(hist.popped), k \in 1..queue.count :
                 hist.popped[i] # Stored(queue)[k]

(* C14 as stated: for any interleaving of enqueue, pop, getAt and size calls
   from several threads each operation executes entirely inside the lock, its
   result equals that of a sequential order, no item is popped twice or lost
   other than by overwrite-oldest, and the lock is released after every
   operation. *)
C14_Atomic == InsideLock /\ AsSequential /\ NothingLost

(* C14 for a queue whose mutex exists: the same properties, for any
   interleaving of the threads. *)
C14_AtomicWithMutex == tsq.hasMutex => InsideLock /\ AsSequential /\ NothingLost

(* thread 1 is in the middle of an enqueue on a queue with a mutex while
   thread 2 waits in lock() for its pop *)
C14_Witness ==
    /\ tsq.hasMutex
    /\ tsq.th[1].pc = "advance"
    /\ tsq.th[2].pc = "lock"
    /\ tsq.th[2].op = "pop"

----------------------------------------------------------------------------
(* AsyncLogger<MSG_SIZE, QUEUE_DEPTH> with one caller.  A message is the
   number of the log call that made it; the message a handleLog override
   builds from message m and passes to pushToQueue is -m.  The text of a
   message (time stamp, badge, body) is not modelled. *)

LevelDebug == 0
LevelNone == 4

LogDepth == 2          \* QUEUE_DEPTH
MaxLogs == 3           \* log calls in one behaviour
MaxLoggerCalls == 6    \* calls in one behaviour

(* d, i, w, e and log(level, ...) with the level each passes to vlog *)
LogCalls == {<<"d", 0>>, <<"w", 2>>, <<"e", 3>>, <<"log", 1>>, <<"log", LevelNone>>}

(* what a handleLog override can do: return false or true, and before that
   pass a message of its own to pushToQueue or not; the default is the first *)
Handlers == {[ret |-> FALSE, push |-> FALSE], [ret |-> TRUE, push |-> FALSE],
             [ret |-> TRUE, push |-> TRUE]}

(* the test of log, vlog and logV: if (level < _runtimeLevel) return; *)
Filtered(level, runtimeLevel) == level < runtimeLevel

(* the messages one dispatchLog call enqueues: handleLog's pushToQueue, and
   the message itself if handleLog returned false *)
Enqueued(msg, h) ==
    (IF h.push THEN <<0 - msg>> ELSE <<>>) \o (IF h.ret THEN <<>> ELSE <<msg>>)

RECURSIVE EnqueueAll(_, _)
EnqueueAll(q, msgs) ==
    IF msgs = <<>> THEN q ELSE EnqueueAll(enqueue(q, Head(msgs)), Tail(msgs))

(* dispatchLog that enqueues whatever handleLog returned *)
dispatchLog_always(q, msg, h) ==
    EnqueueAll(q, (IF h.push THEN <<0 - msg>> ELSE <<>>) \o <<msg>>)

dispatchLog(q, msg, h) == EnqueueAll(q, Enqueued(msg, h))

LoggerCalled(name, result) ==
    /\ hist.calls < MaxLoggerCalls
    /\ lastOp' = name @@ [pre |-> queue, preOutput |-> logger.output]
    /\ out' = result
    /\ UNCHANGED <<svars, tsq>>

SetRuntimeLevel(level) ==
    /\ LoggerCalled([op |-> "setRuntimeLevel", level |-> level], <<>>)
    /\ logger' = [logger EXCEPT !.level = level]
    /\ hist' = [hist EXCEPT !.calls = @ + 1]
    /\ queue' = queue

(* d, i, w, e or log: the level test, then logV and dispatchLog.
   logger.filtered are the messages that did not pass the test. *)
Log(via, level, h) ==
    LET msg == logger.logged + 1
        passed == ~Filtered(level, logger.level)
    IN /\ logger.logged < MaxLogs
       /\ LoggerCalled([op |-> "log", via |-> via, level |-> level, msg |-> msg,
                        runtime |-> logger.level, passed |-> passed, h |-> h], <<>>)
       /\ queue' = IF passed THEN dispatchLog(queue, msg, h) ELSE queue
       /\ hist' = [items |-> IF passed THEN hist.items \o Enqueued(msg, h)
                             ELSE hist.items,
                   calls |-> hist.calls + 1]
       /\ logger' = [logger EXCEPT
                        !.logged = msg,
                        !.filtered = IF passed THEN @ ELSE @ \cup {msg},
                        !.phase = IF @ = "logging" THEN @ ELSE "mixed"]

Update ==
    LET r == pop(queue)
    IN /\ LoggerCalled([op |-> "update"], [ret |-> r.ret])
       /\ queue' = r.queue
       /\ hist' = [hist EXCEPT !.calls = @ + 1]
       /\ logger' = [logger EXCEPT
                        !.output = IF r.ret THEN Append(@, r.item) ELSE @,
                        !.phase = IF @ = "logging" THEN "draining" ELSE @]

InitLogger ==
    /\ NoString
    /\ lastOp = NoOp
    /\ out = <<>>
    /\ queue = NewQueue(LogDepth)
    /\ hist = [items |-> <<>>, calls |-> 0]
    /\ tsq = <<>>
    /\ logger = [level |-> LevelDebug, output |-> <<>>, logged |-> 0,
                 filtered |-> {}, phase |-> "logging"]

NextLogger ==
    \/ \E level \in LevelDebug..LevelNone : SetRuntimeLevel(level)
    \/ \E c \in LogCalls, h \in Handlers : Log(c[1], c[2], h)
    \/ Update

SpecLogger == InitLogger /\ [][NextLogger]_vars

(* message m is in the queue or was output *)
Seen(m) ==
    \/ \E k \in 1..queue.count : Stored(queue)[k] = m
    \/ \E k \in 1..Len(logger.output) : logger.output[k] = m

(* C15: after setRuntimeLevel(L) a message logged with a level below L is
   never enqueued and never output by a later update(), a message at a level
   >= L is dispatched, and with L = None nothing is enqueued. *)
C15_LevelFilter ==
    /\ \A m \in logger.filtered : ~Seen(m) /\ ~Seen(0 - m)
    /\ lastOp.op = "log"
       => /\ lastOp.level < lastOp.runtime
             => ~lastOp.passed /\ lastOp.msg \in logger.filtered /\ queue = lastOp.pre
          /\ lastOp.level >= lastOp.runtime => lastOp.passed
          /\ lastOp.runtime = LevelNone => queue = lastOp.pre

(* the last n of s, all of s if it is shorter *)
Newest(s, n) == LastOf(s, Min(n, Len(s)))

(* C16: for every dispatched message, if handleLog returned true the queue
   gained only what handleLog pushed with pushToQueue, and if handleLog
   returned false the message was enqueued exactly once. *)
C16_Interception ==
    lastOp.op = "log" /\ lastOp.passed
    => LET h == lastOp.h
           m == lastOp.msg
           pushed == IF h.push THEN <<0 - m>> ELSE <<>>
           copies == {k \in 1..queue.count : Stored(queue)[k] = m}
       IN /\ h.ret => /\ copies = {}
                      /\ Stored(queue) = Newest(Stored(lastOp.pre) \o pushed, LogDepth)
          /\ ~h.ret => /\ Cardinality(copies) = 1
                       /\ Stored(queue)
                          = Newest(Stored(lastOp.pre) \o pushed \o <<m>>, LogDepth)

(* handleLog pushed a message of its own and returned true: the queue holds
   the pushed message and not the original *)
C16_Witness ==
    /\ lastOp.op = "log"
    /\ lastOp.passed
    /\ lastOp.h = [ret |-> TRUE, push |-> TRUE]
    /\ Stored(queue) = <<1, 0 - lastOp.msg>>

(* C17: update() outputs exactly one message, the oldest one still queued,
   and returns true, or outputs nothing and returns false when the queue is
   empty; and when more than QUEUE_DEPTH messages were logged before the
   first update, the updates output exactly the last QUEUE_DEPTH of them in
   the order they were logged, and then update() returns false. *)
C17_DeliveryOrder ==
    /\ lastOp.op = "update" /\ lastOp.pre.count > 0
       => /\ out.ret
          /\ logger.output = Append(lastOp.preOutput, Head(Stored(lastOp.pre)))
          /\ Stored(queue) = Tail(Stored(lastOp.pre))
    /\ lastOp.op = "update" /\ lastOp.pre.count = 0
       => ~out.ret /\ logger.output = lastOp.preOutput /\ queue = lastOp.pre
    /\ logger.phase = "logging" => Stored(queue) = Newest(hist.items, LogDepth)
    /\ logger.phase = "draining"
       => /\ logger.output \o Stored(queue) = Newest(hist.items, LogDepth)
          /\ lastOp.op = "update" /\ ~out.ret
             => logger.output = Newest(hist.items, LogDepth)

(* three messages were logged into a queue of depth two and the updates
   output the second and the third, and then returned false *)
C17_Witness ==
    /\ logger.phase = "draining"
    /\ hist.items = <<1, 2, 3>>
    /\ logger.output = <<2, 3>>
    /\ lastOp.op = "update"
    /\ ~out.ret

====
